---- MODULE Spec2Model ----
(***************************************************************************)
(* Model of the page-organisation core of pdf_manager_app                  *)
(* (src/utils/pdf_editor.py, PDFEditor.merge_pdfs .. rotate_pages).        *)
(*                                                                         *)
(* A document is the sequence of its pages.  A page is a record            *)
(*   [src, num, rot]: the upload it came from, its 1-indexed position in   *)
(*   that upload (this stands for the page's content stream) and its       *)
(*   /Rotate value.                                                        *)
(* A Python str is the sequence of its characters.                         *)
(* Every PDFEditor method first does fitz.open(stream=pdf_file.read()):    *)
(* the handle it is given under Spec is positioned at 0, so read() yields  *)
(* the whole upload; output bytes are the saved document.                  *)
(*                                                                         *)
(* FileSpec (second part of the module) models the tools that work on one  *)
(* uploaded file (src/utils/pdf_security.py, the single-page and preview   *)
(* methods of PDFEditor, OCRProcessor.ocr_pdf, and the handlers of the     *)
(* security and editing pages), with the read cursor of the uploaded       *)
(* handle.                                                                 *)
(*                                                                         *)
(* SessionSpec, SelectorSpec and PositionSpec (third part) model           *)
(* SessionManager (src/core/session_manager.py) and the page and position  *)
(* selectors of UIComponents (src/core/ui_components.py): session_state is *)
(* st.session_state, a function from the keys it holds to their values,    *)
(* and heap holds the list objects the key selected_pages can refer to.    *)
(***************************************************************************)
EXTENDS Integers, Sequences, FiniteSets, TLC

VARIABLES uploaded, call, ret, session_state, heap

vars == <<uploaded, call, ret, session_state, heap>>

---------------------------------------------------------------------------
(* Bounds of the model.                                                    *)

MaxPages == 3
MaxFiles == 3
MaxOrder == 3
MaxEntries == 2
MaxRotPages == 2
MaxRepeat == 4

---------------------------------------------------------------------------
(* Helpers.                                                                *)

Min(a, b) == IF a < b THEN a ELSE b

Max(a, b) == IF a > b THEN a ELSE b

SeqsUpTo(S, n) == UNION {[1..k -> S] : k \in 0..n}

SeqsFromTo(S, lo, hi) == UNION {[1..k -> S] : k \in lo..hi}

Rotations == {0, 90, 180, 270}

\* st.selectbox("Rotation angle:", [90, 180, 270, -90])
Angles == {90, 180, 270, -90}

\* The document of upload number src: n pages, all at rotation rot.
MkDoc(src, n, rot) == [i \in 1..n |-> [src |-> src, num |-> i, rot |-> rot]]

---------------------------------------------------------------------------
(* Results of a call: a returned value or a raised exception.  saves lists *)
(* the page counts of the documents handed to Document.save, in order.     *)

NoRet == [status |-> "none", err |-> "", data |-> <<>>, saves |-> <<>>]

Return(data, saves) == [status |-> "ok", err |-> "", data |-> data, saves |-> saves]

Raise(kind, saves) == [status |-> "error", err |-> kind, data |-> <<>>, saves |-> saves]

---------------------------------------------------------------------------
(* PyMuPDF, as the code uses it.                                           *)

\* JM_merge_range: pages fp..tp (0-indexed) of src, backwards when fp > tp.
PageRange(src, fp, tp) ==
    IF fp < tp
    THEN [i \in 1..(tp - fp + 1) |-> src[fp + i]]
    ELSE [i \in 1..(fp - tp + 1) |-> src[fp - i + 2]]

\* Document.insert_pdf(docsrc, from_page, to_page): the page numbers are
\* normalised (a negative from_page is the first page, a negative to_page the
\* last, both are capped at the last page) and the range is appended.
InsertPdf(dst, src, from_page, to_page) ==
    LET srcCount == Len(src)
        fp == Min(Max(from_page, 0), srcCount - 1)
        tp == IF to_page < 0 THEN srcCount - 1 ELSE Min(to_page, srcCount - 1)
    IN  dst \o PageRange(src, fp, tp)

\* Document.save refuses a document without pages
\* (ValueError: cannot save with zero pages).
CanSave(doc) == Len(doc) >= 1

\* JM_norm_rotation: into 0..359, and 0 unless a multiple of 90.
NormRotation(rotate) ==
    LET r == rotate % 360
    IN  IF r % 90 = 0 THEN r ELSE 0

\* Page.set_rotation(rotation): /Rotate becomes the normalised value.
SetRotation(page, rotation) == [page EXCEPT !.rot = NormRotation(rotation)]

---------------------------------------------------------------------------
(* PDFEditor.rearrange_pages / extract_pages.                              *)

RECURSIVE SelectPages(_, _, _)
SelectPages(doc, page_numbers, new_doc) ==
    IF page_numbers = <<>>
    THEN new_doc
    ELSE LET page_num == Head(page_numbers)
         IN  IF 1 <= page_num /\ page_num <= Len(doc)
             THEN SelectPages(doc, Tail(page_numbers),
                              InsertPdf(new_doc, doc, page_num - 1, page_num - 1))
             ELSE SelectPages(doc, Tail(page_numbers), new_doc)

\* rearrange_pages with the page number passed on as it is (no "- 1").
RECURSIVE SelectPagesNoOffset(_, _, _)
SelectPagesNoOffset(doc, page_numbers, new_doc) ==
    IF page_numbers = <<>>
    THEN new_doc
    ELSE LET page_num == Head(page_numbers)
         IN  IF 1 <= page_num /\ page_num <= Len(doc)
             THEN SelectPagesNoOffset(doc, Tail(page_numbers),
                                      InsertPdf(new_doc, doc, page_num, page_num))
             ELSE SelectPagesNoOffset(doc, Tail(page_numbers), new_doc)

RearrangeNoOffset(doc, new_order) ==
    LET new_doc == SelectPagesNoOffset(doc, new_order, <<>>)
    IN  IF CanSave(new_doc)
        THEN Return(<<new_doc>>, <<Len(new_doc)>>)
        ELSE Raise("ValueError", <<Len(new_doc)>>)

rearrange_pages(doc, new_order) ==
    LET new_doc == SelectPages(doc, new_order, <<>>)
    IN  IF CanSave(new_doc)
        THEN Return(<<new_doc>>, <<Len(new_doc)>>)
        ELSE Raise("ValueError", <<Len(new_doc)>>)

extract_pages(doc, page_numbers) ==
    LET new_doc == SelectPages(doc, page_numbers, <<>>)
    IN  IF CanSave(new_doc)
        THEN Return(<<new_doc>>, <<Len(new_doc)>>)
        ELSE Raise("ValueError", <<Len(new_doc)>>)

---------------------------------------------------------------------------
(* Python str and int operations used by split_pdf and by the pages.       *)

\* Characters are one-character strings; a character outside ASCII, or one
\* without an escape, is written by its code point ("U+00A0").
DigitChars == <<"0", "1", "2", "3", "4", "5", "6", "7", "8", "9">>

\* The decimal digits of Unicode (category Nd), which int() reads like 0..9:
\* 66 rows of ten, each row in the order 0..9.
DecimalDigits ==
    <<DigitChars,
      <<"U+0660", "U+0661", "U+0662", "U+0663", "U+0664",
        "U+0665", "U+0666", "U+0667", "U+0668", "U+0669">>,
      <<"U+06F0", "U+06F1", "U+06F2", "U+06F3", "U+06F4",
        "U+06F5", "U+06F6", "U+06F7", "U+06F8", "U+06F9">>,
      <<"U+07C0", "U+07C1", "U+07C2", "U+07C3", "U+07C4",
        "U+07C5", "U+07C6", "U+07C7", "U+07C8", "U+07C9">>,
      <<"U+0966", "U+0967", "U+0968", "U+0969", "U+096A",
        "U+096B", "U+096C", "U+096D", "U+096E", "U+096F">>,
      <<"U+09E6", "U+09E7", "U+09E8", "U+09E9", "U+09EA",
        "U+09EB", "U+09EC", "U+09ED", "U+09EE", "U+09EF">>,
      <<"U+0A66", "U+0A67", "U+0A68", "U+0A69", "U+0A6A",
        "U+0A6B", "U+0A6C", "U+0A6D", "U+0A6E", "U+0A6F">>,
      <<"U+0AE6", "U+0AE7", "U+0AE8", "U+0AE9", "U+0AEA",
        "U+0AEB", "U+0AEC", "U+0AED", "U+0AEE", "U+0AEF">>,
      <<"U+0B66", "U+0B67", "U+0B68", "U+0B69", "U+0B6A",
        "U+0B6B", "U+0B6C", "U+0B6D", "U+0B6E", "U+0B6F">>,
      <<"U+0BE6", "U+0BE7", "U+0BE8", "U+0BE9", "U+0BEA",
        "U+0BEB", "U+0BEC", "U+0BED", "U+0BEE", "U+0BEF">>,
      <<"U+0C66", "U+0C67", "U+0C68", "U+0C69", "U+0C6A",
        "U+0C6B", "U+0C6C", "U+0C6D", "U+0C6E", "U+0C6F">>,
      <<"U+0CE6", "U+0CE7", "U+0CE8", "U+0CE9", "U+0CEA",
        "U+0CEB", "U+0CEC", "U+0CED", "U+0CEE", "U+0CEF">>,
      <<"U+0D66", "U+0D67", "U+0D68", "U+0D69", "U+0D6A",
        "U+0D6B", "U+0D6C", "U+0D6D", "U+0D6E", "U+0D6F">>,
      <<"U+0DE6", "U+0DE7", "U+0DE8", "U+0DE9", "U+0DEA",
        "U+0DEB", "U+0DEC", "U+0DED", "U+0DEE", "U+0DEF">>,
      <<"U+0E50", "U+0E51", "U+0E52", "U+0E53", "U+0E54",
        "U+0E55", "U+0E56", "U+0E57", "U+0E58", "U+0E59">>,
      <<"U+0ED0", "U+0ED1", "U+0ED2", "U+0ED3", "U+0ED4",
        "U+0ED5", "U+0ED6", "U+0ED7", "U+0ED8", "U+0ED9">>,
      <<"U+0F20", "U+0F21", "U+0F22", "U+0F23", "U+0F24",
        "U+0F25", "U+0F26", "U+0F27", "U+0F28", "U+0F29">>,
      <<"U+1040", "U+1041", "U+1042", "U+1043", "U+1044",
        "U+1045", "U+1046", "U+1047", "U+1048", "U+1049">>,
      <<"U+1090", "U+1091", "U+1092", "U+1093", "U+1094",
        "U+1095", "U+1096", "U+1097", "U+1098", "U+1099">>,
      <<"U+17E0", "U+17E1", "U+17E2", "U+17E3", "U+17E4",
        "U+17E5", "U+17E6", "U+17E7", "U+17E8", "U+17E9">>,
      <<"U+1810", "U+1811", "U+1812", "U+1813", "U+1814",
        "U+1815", "U+1816", "U+1817", "U+1818", "U+1819">>,
      <<"U+1946", "U+1947", "U+1948", "U+1949", "U+194A",
        "U+194B", "U+194C", "U+194D", "U+194E", "U+194F">>,
      <<"U+19D0", "U+19D1", "U+19D2", "U+19D3", "U+19D4",
        "U+19D5", "U+19D6", "U+19D7", "U+19D8", "U+19D9">>,
      <<"U+1A80", "U+1A81", "U+1A82", "U+1A83", "U+1A84",
        "U+1A85", "U+1A86", "U+1A87", "U+1A88", "U+1A89">>,
      <<"U+1A90", "U+1A91", "U+1A92", "U+1A93", "U+1A94",
        "U+1A95", "U+1A96", "U+1A97", "U+1A98", "U+1A99">>,
      <<"U+1B50", "U+1B51", "U+1B52", "U+1B53", "U+1B54",
        "U+1B55", "U+1B56", "U+1B57", "U+1B58", "U+1B59">>,
      <<"U+1BB0", "U+1BB1", "U+1BB2", "U+1BB3", "U+1BB4",
        "U+1BB5", "U+1BB6", "U+1BB7", "U+1BB8", "U+1BB9">>,
      <<"U+1C40", "U+1C41", "U+1C42", "U+1C43", "U+1C44",
        "U+1C45", "U+1C46", "U+1C47", "U+1C48", "U+1C49">>,
      <<"U+1C50", "U+1C51", "U+1C52", "U+1C53", "U+1C54",
        "U+1C55", "U+1C56", "U+1C57", "U+1C58", "U+1C59">>,
      <<"U+A620", "U+A621", "U+A622", "U+A623", "U+A624",
        "U+A625", "U+A626", "U+A627", "U+A628", "U+A629">>,
      <<"U+A8D0", "U+A8D1", "U+A8D2", "U+A8D3", "U+A8D4",
        "U+A8D5", "U+A8D6", "U+A8D7", "U+A8D8", "U+A8D9">>,
      <<"U+A900", "U+A901", "U+A902", "U+A903", "U+A904",
        "U+A905", "U+A906", "U+A907", "U+A908", "U+A909">>,
      <<"U+A9D0", "U+A9D1", "U+A9D2", "U+A9D3", "U+A9D4",
        "U+A9D5", "U+A9D6", "U+A9D7", "U+A9D8", "U+A9D9">>,
      <<"U+A9F0", "U+A9F1", "U+A9F2", "U+A9F3", "U+A9F4",
        "U+A9F5", "U+A9F6", "U+A9F7", "U+A9F8", "U+A9F9">>,
      <<"U+AA50", "U+AA51", "U+AA52", "U+AA53", "U+AA54",
        "U+AA55", "U+AA56", "U+AA57", "U+AA58", "U+AA59">>,
      <<"U+ABF0", "U+ABF1", "U+ABF2", "U+ABF3", "U+ABF4",
        "U+ABF5", "U+ABF6", "U+ABF7", "U+ABF8", "U+ABF9">>,
      <<"U+FF10", "U+FF11", "U+FF12", "U+FF13", "U+FF14",
        "U+FF15", "U+FF16", "U+FF17", "U+FF18", "U+FF19">>,
      <<"U+104A0", "U+104A1", "U+104A2", "U+104A3", "U+104A4",
        "U+104A5", "U+104A6", "U+104A7", "U+104A8", "U+104A9">>,
      <<"U+10D30", "U+10D31", "U+10D32", "U+10D33", "U+10D34",
        "U+10D35", "U+10D36", "U+10D37", "U+10D38", "U+10D39">>,
      <<"U+11066", "U+11067", "U+11068", "U+11069", "U+1106A",
        "U+1106B", "U+1106C", "U+1106D", "U+1106E", "U+1106F">>,
      <<"U+110F0", "U+110F1", "U+110F2", "U+110F3", "U+110F4",
        "U+110F5", "U+110F6", "U+110F7", "U+110F8", "U+110F9">>,
      <<"U+11136", "U+11137", "U+11138", "U+11139", "U+1113A",
        "U+1113B", "U+1113C", "U+1113D", "U+1113E", "U+1113F">>,
      <<"U+111D0", "U+111D1", "U+111D2", "U+111D3", "U+111D4",
        "U+111D5", "U+111D6", "U+111D7", "U+111D8", "U+111D9">>,
      <<"U+112F0", "U+112F1", "U+112F2", "U+112F3", "U+112F4",
        "U+112F5", "U+112F6", "U+112F7", "U+112F8", "U+112F9">>,
      <<"U+11450", "U+11451", "U+11452", "U+11453", "U+11454",
        "U+11455", "U+11456", "U+11457", "U+11458", "U+11459">>,
      <<"U+114D0", "U+114D1", "U+114D2", "U+114D3", "U+114D4",
        "U+114D5", "U+114D6", "U+114D7", "U+114D8", "U+114D9">>,
      <<"U+11650", "U+11651", "U+11652", "U+11653", "U+11654",
        "U+11655", "U+11656", "U+11657", "U+11658", "U+11659">>,
      <<"U+116C0", "U+116C1", "U+116C2", "U+116C3", "U+116C4",
        "U+116C5", "U+116C6", "U+116C7", "U+116C8", "U+116C9">>,
      <<"U+11730", "U+11731", "U+11732", "U+11733", "U+11734",
        "U+11735", "U+11736", "U+11737", "U+11738", "U+11739">>,
      <<"U+118E0", "U+118E1", "U+118E2", "U+118E3", "U+118E4",
        "U+118E5", "U+118E6", "U+118E7", "U+118E8", "U+118E9">>,
      <<"U+11950", "U+11951", "U+11952", "U+11953", "U+11954",
        "U+11955", "U+11956", "U+11957", "U+11958", "U+11959">>,
      <<"U+11C50", "U+11C51", "U+11C52", "U+11C53", "U+11C54",
        "U+11C55", "U+11C56", "U+11C57", "U+11C58", "U+11C59">>,
      <<"U+11D50", "U+11D51", "U+11D52", "U+11D53", "U+11D54",
        "U+11D55", "U+11D56", "U+11D57", "U+11D58", "U+11D59">>,
      <<"U+11DA0", "U+11DA1", "U+11DA2", "U+11DA3", "U+11DA4",
        "U+11DA5", "U+11DA6", "U+11DA7", "U+11DA8", "U+11DA9">>,
      <<"U+16A60", "U+16A61", "U+16A62", "U+16A63", "U+16A64",
        "U+16A65", "U+16A66", "U+16A67", "U+16A68", "U+16A69">>,
      <<"U+16AC0", "U+16AC1", "U+16AC2", "U+16AC3", "U+16AC4",
        "U+16AC5", "U+16AC6", "U+16AC7", "U+16AC8", "U+16AC9">>,
      <<"U+16B50", "U+16B51", "U+16B52", "U+16B53", "U+16B54",
        "U+16B55", "U+16B56", "U+16B57", "U+16B58", "U+16B59">>,
      <<"U+1D7CE", "U+1D7CF", "U+1D7D0", "U+1D7D1", "U+1D7D2",
        "U+1D7D3", "U+1D7D4", "U+1D7D5", "U+1D7D6", "U+1D7D7">>,
      <<"U+1D7D8", "U+1D7D9", "U+1D7DA", "U+1D7DB", "U+1D7DC",
        "U+1D7DD", "U+1D7DE", "U+1D7DF", "U+1D7E0", "U+1D7E1">>,
      <<"U+1D7E2", "U+1D7E3", "U+1D7E4", "U+1D7E5", "U+1D7E6",
        "U+1D7E7", "U+1D7E8", "U+1D7E9", "U+1D7EA", "U+1D7EB">>,
      <<"U+1D7EC", "U+1D7ED", "U+1D7EE", "U+1D7EF", "U+1D7F0",
        "U+1D7F1", "U+1D7F2", "U+1D7F3", "U+1D7F4", "U+1D7F5">>,
      <<"U+1D7F6", "U+1D7F7", "U+1D7F8", "U+1D7F9", "U+1D7FA",
        "U+1D7FB", "U+1D7FC", "U+1D7FD", "U+1D7FE", "U+1D7FF">>,
      <<"U+1E140", "U+1E141", "U+1E142", "U+1E143", "U+1E144",
        "U+1E145", "U+1E146", "U+1E147", "U+1E148", "U+1E149">>,
      <<"U+1E2F0", "U+1E2F1", "U+1E2F2", "U+1E2F3", "U+1E2F4",
        "U+1E2F5", "U+1E2F6", "U+1E2F7", "U+1E2F8", "U+1E2F9">>,
      <<"U+1E950", "U+1E951", "U+1E952", "U+1E953", "U+1E954",
        "U+1E955", "U+1E956", "U+1E957", "U+1E958", "U+1E959">>,
      <<"U+1FBF0", "U+1FBF1", "U+1FBF2", "U+1FBF3", "U+1FBF4",
        "U+1FBF5", "U+1FBF6", "U+1FBF7", "U+1FBF8", "U+1FBF9">>>>

\* The characters c with c.isspace(): str.strip() drops them at both ends.
Whitespace ==
    {" ", "\t", "\n", "\r", "\f", "U+000B", "U+001C", "U+001D", "U+001E",
     "U+001F", "U+0085", "U+00A0", "U+1680", "U+2000", "U+2001", "U+2002",
     "U+2003", "U+2004", "U+2005", "U+2006", "U+2007", "U+2008", "U+2009",
     "U+200A", "U+2028", "U+2029", "U+202F", "U+205F", "U+3000"}

\* The characters int() drops at both ends: the separators U+001C..U+001F
\* are whitespace for str.strip() but not for int().
IntWhitespace == Whitespace \ {"U+001C", "U+001D", "U+001E", "U+001F"}

\* sys.int_max_str_digits: int() raises ValueError for a decimal literal of
\* more digits.
int_max_str_digits == 4300

DecimalDigitSet == {DecimalDigits[r][d] : r \in 1..Len(DecimalDigits), d \in 1..10}

IsDigit(c) == c \in DecimalDigitSet

DigitVal(c) ==
    (CHOOSE d \in 1..10 : \E r \in 1..Len(DecimalDigits) : DecimalDigits[r][d] = c) - 1

\* The letters int(s, 16) reads as 10..15.
HexLetters ==
    <<{"a", "A"}, {"b", "B"}, {"c", "C"}, {"d", "D"}, {"e", "E"}, {"f", "F"}>>

HexDigitSet == DecimalDigitSet \cup UNION {HexLetters[k] : k \in 1..Len(HexLetters)}

IsHexDigit(c) == c \in HexDigitSet

HexVal(c) ==
    IF IsDigit(c) THEN DigitVal(c)
    ELSE 9 + CHOOSE k \in 1..Len(HexLetters) : c \in HexLetters[k]

\* sep in s
Contains(s, sep) == \E i \in 1..Len(s) : s[i] = sep

\* s.split(sep): the pieces between the separators, at least one piece.
RECURSIVE PySplit(_, _)
PySplit(s, sep) ==
    IF ~Contains(s, sep)
    THEN <<s>>
    ELSE LET i == CHOOSE k \in 1..Len(s) :
                     s[k] = sep /\ \A j \in 1..(k - 1) : s[j] # sep
         IN  <<SubSeq(s, 1, i - 1)>> \o PySplit(SubSeq(s, i + 1, Len(s)), sep)

\* s[i:j] for 0 <= i <= j
PySlice(s, i, j) == SubSeq(s, i + 1, Min(j, Len(s)))

\* s without the characters of chars at both ends
RECURSIVE Strip(_, _)
Strip(s, chars) ==
    IF s # <<>> /\ Head(s) \in chars THEN Strip(Tail(s), chars)
    ELSE IF s # <<>> /\ s[Len(s)] \in chars THEN Strip(SubSeq(s, 1, Len(s) - 1), chars)
    ELSE s

\* s.strip()
PyStrip(s) == Strip(s, Whitespace)

\* What int(s) reads as the number: s without the whitespace of int() around
\* it and without one leading sign.
IntBody(s) ==
    LET t == Strip(s, IntWhitespace)
    IN  IF t # <<>> /\ Head(t) \in {"-", "+"} THEN Tail(t) ELSE t

\* body is made of digits, with single underscores allowed between two
\* digits.
Underscored(body, digits) ==
    /\ body # <<>>
    /\ \A i \in 1..Len(body) :
          \/ body[i] \in digits
          \/ /\ body[i] = "_"
             /\ 1 < i /\ i < Len(body)
             /\ body[i - 1] \in digits /\ body[i + 1] \in digits

\* int(s) does not raise ValueError.
IsIntLiteral(s) ==
    LET body == IntBody(s)
    IN  /\ Underscored(body, DecimalDigitSet)
        /\ Len(SelectSeq(body, IsDigit)) <= int_max_str_digits

RECURSIVE DecimalValue(_)
DecimalValue(ds) ==
    IF ds = <<>> THEN 0
    ELSE 10 * DecimalValue(SubSeq(ds, 1, Len(ds) - 1)) + DigitVal(ds[Len(ds)])

\* int(s), for s with IsIntLiteral(s): the underscores do not count.
PyInt(s) ==
    LET t == Strip(s, IntWhitespace)
        digits == SelectSeq(IntBody(s), IsDigit)
    IN  IF Head(t) = "-" THEN 0 - DecimalValue(digits) ELSE DecimalValue(digits)

\* What int(s, 16) reads as the number: the body of int() without a prefix
\* 0x or 0X and one underscore behind it.
HexBody(s) ==
    LET body == IntBody(s)
        rest == SubSeq(body, 3, Len(body))
    IN  IF Len(body) >= 2 /\ IsDigit(body[1]) /\ DigitVal(body[1]) = 0
           /\ body[2] \in {"x", "X"}
        THEN IF rest # <<>> /\ Head(rest) = "_" THEN Tail(rest) ELSE rest
        ELSE body

\* int(s, 16) does not raise ValueError; the limit on the digits is for the
\* bases that are no power of 2.
IsHexLiteral(s) == Underscored(HexBody(s), HexDigitSet)

RECURSIVE HexValue(_)
HexValue(ds) ==
    IF ds = <<>> THEN 0
    ELSE 16 * HexValue(SubSeq(ds, 1, Len(ds) - 1)) + HexVal(ds[Len(ds)])

\* int(s, 16), for s with IsHexLiteral(s)
PyIntHex(s) ==
    LET t == Strip(s, IntWhitespace)
        digits == SelectSeq(HexBody(s), IsHexDigit)
    IN  IF Head(t) = "-" THEN 0 - HexValue(digits) ELSE HexValue(digits)

---------------------------------------------------------------------------
(* PDFEditor.merge_pdfs.                                                   *)

\* merge_pdfs with each file inserted in front of the pages merged so far.
RECURSIVE MergeLoopInFront(_, _)
MergeLoopInFront(merged_doc, pdf_files) ==
    IF pdf_files = <<>>
    THEN merged_doc
    ELSE MergeLoopInFront(InsertPdf(<<>>, Head(pdf_files), -1, -1) \o merged_doc,
                          Tail(pdf_files))

RECURSIVE MergeLoop(_, _)
MergeLoop(merged_doc, pdf_files) ==
    IF pdf_files = <<>>
    THEN merged_doc
    ELSE MergeLoop(InsertPdf(merged_doc, Head(pdf_files), -1, -1), Tail(pdf_files))

merge_pdfs(pdf_files) ==
    LET merged_doc == MergeLoop(<<>>, pdf_files)
    IN  IF CanSave(merged_doc)
        THEN Return(<<merged_doc>>, <<Len(merged_doc)>>)
        ELSE Raise("ValueError", <<Len(merged_doc)>>)

---------------------------------------------------------------------------
(* PDFEditor.split_pdf.  acc is the list of outputs built so far; the      *)
(* 'filename' of an output is left out.                                    *)

\* new_doc.save(output); split_files.append(...)
SaveAndAppend(acc, new_doc) == Append(acc, new_doc)

\* split_type == "pages": the loop over page_numbers
RECURSIVE SplitPagesLoop(_, _, _)
SplitPagesLoop(doc, page_numbers, acc) ==
    IF page_numbers = <<>>
    THEN Return(acc, [i \in 1..Len(acc) |-> Len(acc[i])])
    ELSE LET page_num == Head(page_numbers)
             new_doc == InsertPdf(<<>>, doc, page_num - 1, page_num - 1)
         IN  IF page_num <= Len(doc)
             THEN IF CanSave(new_doc)
                  THEN SplitPagesLoop(doc, Tail(page_numbers), SaveAndAppend(acc, new_doc))
                  ELSE Raise("ValueError", [i \in 1..Len(acc) |-> Len(acc[i])] \o <<0>>)
             ELSE SplitPagesLoop(doc, Tail(page_numbers), acc)

\* page_numbers = [int(p.strip()) for p in split_value.split(',')]
SplitPages(doc, split_value) ==
    LET ps == PySplit(split_value, ",")
    IN  IF \E i \in 1..Len(ps) : ~IsIntLiteral(PyStrip(ps[i]))
        THEN Raise("ValueError", <<>>)
        ELSE SplitPagesLoop(doc, [i \in 1..Len(ps) |-> PyInt(PyStrip(ps[i]))], <<>>)

\* start, end = map(int, range_str.split('-')) does not raise
RangeParses(range_str) ==
    LET parts == PySplit(range_str, "-")
    IN  /\ Len(parts) = 2
        /\ IsIntLiteral(parts[1])
        /\ IsIntLiteral(parts[2])

\* split_type == "range": the loop over ranges
RECURSIVE SplitRangesLoop(_, _, _)
SplitRangesLoop(doc, ranges, acc) ==
    IF ranges = <<>>
    THEN Return(acc, [i \in 1..Len(acc) |-> Len(acc[i])])
    ELSE LET range_str == Head(ranges)
             parts == PySplit(range_str, "-")
             start == PyInt(parts[1])
             end == PyInt(parts[2])
             new_doc == InsertPdf(<<>>, doc, start - 1, end - 1)
         IN  IF Contains(range_str, "-")
             THEN IF ~RangeParses(range_str)
                  THEN Raise("ValueError", [i \in 1..Len(acc) |-> Len(acc[i])])
                  ELSE IF CanSave(new_doc)
                  THEN SplitRangesLoop(doc, Tail(ranges), SaveAndAppend(acc, new_doc))
                  ELSE Raise("ValueError", [i \in 1..Len(acc) |-> Len(acc[i])] \o <<0>>)
             ELSE SplitRangesLoop(doc, Tail(ranges), acc)

\* The equal split with end_page one too far: min(i + pages_per_part, ...).
RECURSIVE SplitEqualLoopOverlap(_, _, _, _)
SplitEqualLoopOverlap(doc, pages_per_part, i, acc) ==
    IF i >= Len(doc)
    THEN Return(acc, [j \in 1..Len(acc) |-> Len(acc[j])])
    ELSE LET end_page == Min(i + pages_per_part, Len(doc) - 1)
             new_doc == InsertPdf(<<>>, doc, i, end_page)
         IN  SplitEqualLoopOverlap(doc, pages_per_part, i + pages_per_part,
                                   SaveAndAppend(acc, new_doc))

\* split_type == "equal": for i in range(0, total_pages, pages_per_part),
\* for pages_per_part >= 1
RECURSIVE SplitEqualLoop(_, _, _, _)
SplitEqualLoop(doc, pages_per_part, i, acc) ==
    IF i >= Len(doc)
    THEN Return(acc, [j \in 1..Len(acc) |-> Len(acc[j])])
    ELSE LET end_page == Min(i + pages_per_part - 1, Len(doc) - 1)
             new_doc == InsertPdf(<<>>, doc, i, end_page)
         IN  IF CanSave(new_doc)
             THEN SplitEqualLoop(doc, pages_per_part, i + pages_per_part,
                                 SaveAndAppend(acc, new_doc))
             ELSE Raise("ValueError", [j \in 1..Len(acc) |-> Len(acc[j])] \o <<0>>)

\* pages_per_part = int(split_value) if split_value else 1; range() raises
\* ValueError on a step of 0 and is empty on a negative step.
SplitEqual(doc, split_value) ==
    IF split_value # <<>> /\ ~IsIntLiteral(split_value)
    THEN Raise("ValueError", <<>>)
    ELSE LET pages_per_part == IF split_value # <<>> THEN PyInt(split_value) ELSE 1
         IN  IF pages_per_part = 0 THEN Raise("ValueError", <<>>)
             ELSE IF pages_per_part < 0 THEN Return(<<>>, <<>>)
             ELSE SplitEqualLoop(doc, pages_per_part, 0, <<>>)

split_pdf(doc, split_type, split_value) ==
    IF split_type = "pages" /\ split_value # <<>> THEN SplitPages(doc, split_value)
    ELSE IF split_type = "range" /\ split_value # <<>>
    THEN SplitRangesLoop(doc, PySplit(split_value, ","), <<>>)
    ELSE IF split_type = "equal" THEN SplitEqual(doc, split_value)
    ELSE Return(<<>>, <<>>)

---------------------------------------------------------------------------
(* PDFEditor.rotate_pages.  all stands for page_numbers = None.            *)

RECURSIVE RotateLoop(_, _, _)
RotateLoop(doc, rotation_angle, page_numbers) ==
    IF page_numbers = <<>>
    THEN doc
    ELSE LET page_num == Head(page_numbers)
         IN  IF 1 <= page_num /\ page_num <= Len(doc)
             THEN RotateLoop([doc EXCEPT ![page_num] = SetRotation(@, rotation_angle)],
                             rotation_angle, Tail(page_numbers))
             ELSE RotateLoop(doc, rotation_angle, Tail(page_numbers))

rotate_pages(doc, rotation_angle, all, page_numbers) ==
    LET numbers == IF all THEN [i \in 1..Len(doc) |-> i] ELSE page_numbers
        rotated == RotateLoop(doc, rotation_angle, numbers)
    IN  IF CanSave(rotated)
        THEN Return(<<rotated>>, <<Len(rotated)>>)
        ELSE Raise("ValueError", <<Len(rotated)>>)

---------------------------------------------------------------------------
(* The state machine: an upload, then calls of the editor on it.           *)

NoCall == [name |-> "none", source |-> "", split_type |-> "", split_value |-> <<>>,
           pages |-> <<>>, all |-> FALSE, angle |-> 0, round |-> 0, text |-> <<>>]

\* A document the user can upload as file number src: 1..MaxPages pages.
UploadDocs(src) == {MkDoc(src, n, r) : n \in 1..MaxPages, r \in Rotations}

\* Page numbers a caller may pass for a document of n pages: the valid ones,
\* one below and one above.
PageArgs(n) == 0..(n + 1)

\* str(i) for 0 <= i <= 9
NumStr(i) == <<DigitChars[i + 1]>>

\* ",".join(entries)
RECURSIVE Join(_)
Join(entries) ==
    IF Len(entries) = 1 THEN entries[1]
    ELSE Head(entries) \o <<",">> \o Join(Tail(entries))

\* Entries typed into "Enter page numbers (comma-separated)": page numbers,
\* and an empty, a padded, a negative and a range-shaped entry, one behind a
\* tab and one with an underscore.
PagesEntries(n) ==
    {NumStr(i) : i \in PageArgs(n)}
        \cup {<<>>, <<" ", "1">>, <<"-", "1">>, <<"1", "-", "1">>,
              <<"\t", "1">>, <<"1", "_", "0">>}

\* Entries typed into "Enter page ranges (comma-separated)": ranges a-b, and
\* an entry without '-', one without an end and one with a negative start.
RangeEntries(n) ==
    {NumStr(a) \o <<"-">> \o NumStr(b) : a \in PageArgs(n), b \in PageArgs(n)}
        \cup {<<"1">>, <<"1", "-">>, <<"-", "1", "-", "1">>}

\* Values passed as pages per part: str(k), and an empty, a negative and a
\* padded value.
EqualValues(n) ==
    {NumStr(k) : k \in PageArgs(n)} \cup {<<>>, <<"-", "1">>, <<" ", "1">>}

SplitValues(entries) == {Join(es) : es \in SeqsFromTo(entries, 1, MaxEntries)}

\* [int(p.strip()) for p in text.split(',')]: the list, or the ValueError of
\* the first entry int() does not read.
IntList(text) ==
    LET ps == PySplit(text, ",")
    IN  IF \E i \in 1..Len(ps) : ~IsIntLiteral(PyStrip(ps[i]))
        THEN [raised |-> TRUE, value |-> <<>>]
        ELSE [raised |-> FALSE,
              value |-> [i \in 1..Len(ps) |-> PyInt(PyStrip(ps[i]))]]

\* The record of a script run that ended in int() before any call of the
\* editor.
IntFailed(text) == [NoCall EXCEPT !.name = "int", !.text = text]

\* The list objects a session can hold on to: the list that is the value of
\* default_values['selected_pages'] of the SessionManager of this script
\* run ("defaults"), the one of an earlier SessionManager that only the
\* session still refers to ("stale"), and one other list.  All are empty at
\* first.
NoLists == [defaults |-> <<>>, stale |-> <<>>, other |-> <<>>]

Init ==
    /\ uploaded = <<>>
    /\ call = NoCall
    /\ ret = NoRet
    /\ session_state = <<>>
    /\ heap = NoLists

\* st.file_uploader: one more file is added to the selection.
Upload ==
    /\ call.name = "none"
    /\ Len(uploaded) < MaxFiles
    /\ \E doc \in UploadDocs(Len(uploaded) + 1) : uploaded' = Append(uploaded, doc)
    /\ UNCHANGED <<call, ret>>
    /\ UNCHANGED <<session_state, heap>>

\* st.file_uploader: the selection is cleared.
ClearUpload ==
    /\ call.name = "none"
    /\ uploaded # <<>>
    /\ uploaded' = <<>>
    /\ UNCHANGED <<call, ret>>
    /\ UNCHANGED <<session_state, heap>>

\* The next script run: the result of the last button click is gone.
Rerun ==
    /\ call.name # "none"
    /\ call' = NoCall
    /\ ret' = NoRet
    /\ UNCHANGED uploaded
    /\ UNCHANGED <<session_state, heap>>

---------------------------------------------------------------------------
(* The methods of PDFEditor called directly, with any argument of the      *)
(* bounded sets: also the ones no tool of the page passes on.              *)

CallMergePdfs ==
    /\ call.name = "none"
    /\ call' = [NoCall EXCEPT !.name = "merge_pdfs", !.source = "uploaded"]
    /\ ret' = merge_pdfs(uploaded)
    /\ UNCHANGED uploaded
    /\ UNCHANGED <<session_state, heap>>

CallSplitPages ==
    /\ call.name = "none"
    /\ Len(uploaded) = 1
    /\ \E split_value \in SplitValues(PagesEntries(Len(uploaded[1]))) :
          /\ call' = [NoCall EXCEPT !.name = "split_pdf", !.split_type = "pages",
                                    !.split_value = split_value]
          /\ ret' = split_pdf(uploaded[1], "pages", split_value)
    /\ UNCHANGED uploaded
    /\ UNCHANGED <<session_state, heap>>

CallSplitRanges ==
    /\ call.name = "none"
    /\ Len(uploaded) = 1
    /\ \E split_value \in SplitValues(RangeEntries(Len(uploaded[1]))) :
          /\ call' = [NoCall EXCEPT !.name = "split_pdf", !.split_type = "range",
                                    !.split_value = split_value]
          /\ ret' = split_pdf(uploaded[1], "range", split_value)
    /\ UNCHANGED uploaded
    /\ UNCHANGED <<session_state, heap>>

CallSplitEqual ==
    /\ call.name = "none"
    /\ Len(uploaded) = 1
    /\ \E split_value \in EqualValues(Len(uploaded[1])) :
          /\ call' = [NoCall EXCEPT !.name = "split_pdf", !.split_type = "equal",
                                    !.split_value = split_value]
          /\ ret' = split_pdf(uploaded[1], "equal", split_value)
    /\ UNCHANGED uploaded
    /\ UNCHANGED <<session_state, heap>>

\* The outputs of a split are handed, in order, to merge_pdfs.
MergeSplitOutput ==
    /\ call.name = "split_pdf"
    /\ ret.status = "ok"
    /\ call' = [call EXCEPT !.name = "merge_pdfs", !.source = "split_output"]
    /\ ret' = merge_pdfs(ret.data)
    /\ UNCHANGED uploaded
    /\ UNCHANGED <<session_state, heap>>

CallRearrangePages ==
    /\ call.name = "none"
    /\ Len(uploaded) = 1
    /\ \E new_order \in SeqsUpTo(PageArgs(Len(uploaded[1])), MaxOrder) :
          /\ call' = [NoCall EXCEPT !.name = "rearrange_pages", !.pages = new_order]
          /\ ret' = rearrange_pages(uploaded[1], new_order)
    /\ UNCHANGED uploaded
    /\ UNCHANGED <<session_state, heap>>

CallExtractPages ==
    /\ call.name = "none"
    /\ Len(uploaded) = 1
    /\ \E page_numbers \in SeqsUpTo(PageArgs(Len(uploaded[1])), MaxOrder) :
          /\ call' = [NoCall EXCEPT !.name = "extract_pages", !.pages = page_numbers]
          /\ ret' = extract_pages(uploaded[1], page_numbers)
    /\ UNCHANGED uploaded
    /\ UNCHANGED <<session_state, heap>>

CallRotatePages ==
    /\ call.name = "none"
    /\ Len(uploaded) = 1
    /\ \E rotation_angle \in Angles, all \in BOOLEAN,
          page_numbers \in SeqsUpTo(PageArgs(Len(uploaded[1])), MaxRotPages) :
          /\ all => page_numbers = <<>>
          /\ call' = [NoCall EXCEPT !.name = "rotate_pages", !.angle = rotation_angle,
                                    !.all = all, !.pages = page_numbers, !.round = 1]
          /\ ret' = rotate_pages(uploaded[1], rotation_angle, all, page_numbers)
    /\ UNCHANGED uploaded
    /\ UNCHANGED <<session_state, heap>>

\* The rotated output is rotated again, with the same arguments.
RotateAgain ==
    /\ call.name = "rotate_pages"
    /\ ret.status = "ok"
    /\ call.round < MaxRepeat
    /\ call' = [call EXCEPT !.round = @ + 1]
    /\ ret' = rotate_pages(ret.data[1], call.angle, call.all, call.pages)
    /\ UNCHANGED uploaded
    /\ UNCHANGED <<session_state, heap>>

---------------------------------------------------------------------------
(* The tools of the organization page: what a click on the button of each  *)
(* tool passes on to the editor.                                           *)

\* _render_merge_tool: the button exists with two files or more.
MergeTool ==
    /\ call.name = "none"
    /\ Len(uploaded) > 1
    /\ call' = [NoCall EXCEPT !.name = "merge_pdfs", !.source = "uploaded"]
    /\ ret' = merge_pdfs(uploaded)
    /\ UNCHANGED uploaded
    /\ UNCHANGED <<session_state, heap>>

\* _render_split_tool, "By Page Numbers": st.button(...) and page_numbers.
SplitPagesTool ==
    /\ call.name = "none"
    /\ Len(uploaded) = 1
    /\ \E page_numbers \in SplitValues(PagesEntries(Len(uploaded[1]))) :
          /\ page_numbers # <<>>
          /\ call' = [NoCall EXCEPT !.name = "split_pdf", !.split_type = "pages",
                                    !.split_value = page_numbers,
                                    !.text = page_numbers]
          /\ ret' = split_pdf(uploaded[1], "pages", page_numbers)
    /\ UNCHANGED uploaded
    /\ UNCHANGED <<session_state, heap>>

\* _render_split_tool, "By Page Ranges": st.button(...) and page_ranges.
SplitRangesTool ==
    /\ call.name = "none"
    /\ Len(uploaded) = 1
    /\ \E page_ranges \in SplitValues(RangeEntries(Len(uploaded[1]))) :
          /\ page_ranges # <<>>
          /\ call' = [NoCall EXCEPT !.name = "split_pdf", !.split_type = "range",
                                    !.split_value = page_ranges,
                                    !.text = page_ranges]
          /\ ret' = split_pdf(uploaded[1], "range", page_ranges)
    /\ UNCHANGED uploaded
    /\ UNCHANGED <<session_state, heap>>

\* _render_split_tool, "Equal Parts": str(pages_per_part) of a number input
\* with min_value = 1.
SplitEqualTool ==
    /\ call.name = "none"
    /\ Len(uploaded) = 1
    /\ \E pages_per_part \in 1..(Len(uploaded[1]) + 1) :
          /\ call' = [NoCall EXCEPT !.name = "split_pdf", !.split_type = "equal",
                                    !.split_value = NumStr(pages_per_part),
                                    !.text = NumStr(pages_per_part)]
          /\ ret' = split_pdf(uploaded[1], "equal", NumStr(pages_per_part))
    /\ UNCHANGED uploaded
    /\ UNCHANGED <<session_state, heap>>

\* _render_rearrange_tool: st.button(...) and new_order; the text is
\* converted inside the try.
RearrangeTool ==
    /\ call.name = "none"
    /\ Len(uploaded) = 1
    /\ \E new_order \in SplitValues(PagesEntries(Len(uploaded[1]))) :
          /\ new_order # <<>>
          /\ LET order_list == IntList(new_order)
             IN  IF order_list.raised
                 THEN /\ call' = IntFailed(new_order)
                      /\ ret' = Raise("ValueError", <<>>)
                 ELSE /\ call' = [NoCall EXCEPT !.name = "rearrange_pages",
                                                !.pages = order_list.value,
                                                !.text = new_order]
                      /\ ret' = rearrange_pages(uploaded[1], order_list.value)
    /\ UNCHANGED uploaded
    /\ UNCHANGED <<session_state, heap>>

\* _render_extract_tool: st.button(...) and page_numbers; the text is
\* converted inside the try.
ExtractTool ==
    /\ call.name = "none"
    /\ Len(uploaded) = 1
    /\ \E page_numbers \in SplitValues(PagesEntries(Len(uploaded[1]))) :
          /\ page_numbers # <<>>
          /\ LET pages_list == IntList(page_numbers)
             IN  IF pages_list.raised
                 THEN /\ call' = IntFailed(page_numbers)
                      /\ ret' = Raise("ValueError", <<>>)
                 ELSE /\ call' = [NoCall EXCEPT !.name = "extract_pages",
                                                !.pages = pages_list.value,
                                                !.text = page_numbers]
                      /\ ret' = extract_pages(uploaded[1], pages_list.value)
    /\ UNCHANGED uploaded
    /\ UNCHANGED <<session_state, heap>>

\* _render_rotate_tool: pages_list is None for "All pages" and for an empty
\* text; the text is converted before the button is looked at and outside
\* the try, so a text int() does not read ends the script run.
RotateTool ==
    /\ call.name = "none"
    /\ Len(uploaded) = 1
    /\ \E rotation_angle \in Angles,
          page_selection \in {"All pages", "Specific pages"},
          page_numbers \in SplitValues(PagesEntries(Len(uploaded[1]))) :
          /\ page_selection = "All pages" => page_numbers = <<>>
          /\ LET all == page_selection = "All pages" \/ page_numbers = <<>>
                 pages_list == IF all THEN [raised |-> FALSE, value |-> <<>>]
                               ELSE IntList(page_numbers)
             IN  IF pages_list.raised
                 THEN /\ call' = IntFailed(page_numbers)
                      /\ ret' = Raise("ValueError", <<>>)
                 ELSE /\ call' = [NoCall EXCEPT !.name = "rotate_pages",
                                                !.angle = rotation_angle,
                                                !.all = all,
                                                !.pages = pages_list.value,
                                                !.round = 1,
                                                !.text = page_numbers]
                      /\ ret' = rotate_pages(uploaded[1], rotation_angle, all,
                                             pages_list.value)
    /\ UNCHANGED uploaded
    /\ UNCHANGED <<session_state, heap>>

Next ==
    \/ Upload
    \/ ClearUpload
    \/ Rerun
    \/ MergeTool
    \/ SplitPagesTool
    \/ SplitRangesTool
    \/ SplitEqualTool
    \/ RearrangeTool
    \/ ExtractTool
    \/ RotateTool
    \/ CallMergePdfs
    \/ CallSplitPages
    \/ CallSplitRanges
    \/ CallSplitEqual
    \/ MergeSplitOutput
    \/ CallRearrangePages
    \/ CallExtractPages
    \/ CallRotatePages
    \/ RotateAgain

Spec == Init /\ [][Next]_vars

---------------------------------------------------------------------------
(* Properties.                                                             *)

\* The single uploaded document and its page count.
D == uploaded[1]

N == Len(uploaded[1])

Called(name) == call.name = name /\ Len(uploaded) = 1

\* The one document a call returned.
Out == ret.data[1]

\* C1 (as stated): for every new_order whose entries all lie in [1, n],
\* rearrange_pages returns a document of len(new_order) pages whose i-th page
\* is original page new_order[i].
C1_RearrangeEveryOrder ==
    (Called("rearrange_pages") /\ \A i \in 1..Len(call.pages) : call.pages[i] \in 1..N)
        => /\ ret.status = "ok"
           /\ Len(Out) = Len(call.pages)
           /\ \A i \in 1..Len(call.pages) : Out[i] = D[call.pages[i]]

\* C1 (amended): the same for every non-empty new_order; duplicates in
\* new_order give duplicate pages.
C1_RearrangeNonEmptyOrder ==
    (/\ Called("rearrange_pages")
     /\ call.pages # <<>>
     /\ \A i \in 1..Len(call.pages) : call.pages[i] \in 1..N)
        => /\ ret.status = "ok"
           /\ Len(Out) = Len(call.pages)
           /\ \A i \in 1..Len(call.pages) : Out[i] = D[call.pages[i]]

\* rearrange(D, [3,1,2]) on a 3-page document has returned.
C1_Witness ==
    /\ Called("rearrange_pages")
    /\ N = 3
    /\ call.pages = <<3, 1, 2>>
    /\ ret.status = "ok"

\* C2: a document returned by extract_pages has len(indices) pages, the j-th
\* being original page indices[j].
C2_ExtractExactlySelected ==
    (Called("extract_pages") /\ ret.status = "ok")
        => /\ Len(Out) = Len(call.pages)
           /\ \A j \in 1..Len(call.pages) :
                 call.pages[j] \in 1..N /\ Out[j] = D[call.pages[j]]

\* The chunk size k the caller passed as str(k), k >= 1.
ChunkGiven == IsIntLiteral(call.split_value) /\ PyInt(call.split_value) >= 1

ChunkSize == PyInt(call.split_value)

\* C3: for n >= 1 pages and k >= 1, split 'equal' returns ceil(n/k) documents
\* of k pages each, the last one possibly shorter, and merging them back in
\* order gives the n pages of D in order.
C3_SplitEqualThenMerge ==
    /\ (Called("split_pdf") /\ call.split_type = "equal" /\ ChunkGiven)
          => /\ ret.status = "ok"
             /\ Len(ret.data) = (N + ChunkSize - 1) \div ChunkSize
             /\ \A j \in 1..(Len(ret.data) - 1) : Len(ret.data[j]) = ChunkSize
             /\ Len(ret.data[Len(ret.data)]) = N - ChunkSize * (Len(ret.data) - 1)
             /\ Len(ret.data[Len(ret.data)]) \in 1..ChunkSize
    /\ (/\ Called("merge_pdfs")
        /\ call.source = "split_output"
        /\ call.split_type = "equal"
        /\ ChunkGiven)
          => /\ ret.status = "ok"
             /\ Len(Out) = N
             /\ \A i \in 1..N : Out[i] = D[i]

\* A 3-page document was split into chunks of 2 (2 pages, then 1) and merged
\* back.
C3_Witness ==
    /\ Called("merge_pdfs")
    /\ call.source = "split_output"
    /\ call.split_type = "equal"
    /\ call.split_value = <<"2">>
    /\ N = 3
    /\ ret.status = "ok"

\* The comma-separated entries of the value passed to split_pdf.
Entries == PySplit(call.split_value, ",")

\* start and end of entry j, when it has the form start-end.
RangeStart(j) == PyInt(PySplit(Entries[j], "-")[1])

RangeEnd(j) == PyInt(PySplit(Entries[j], "-")[2])

\* C4: a 'range' split returns one document per comma-separated entry, in
\* order; the one for start-end holds pages start..end of D in order.
C4_OneDocumentPerRangeEntry ==
    (/\ Called("split_pdf")
     /\ call.split_type = "range"
     /\ call.split_value # <<>>
     /\ ret.status = "ok")
        => /\ Len(ret.data) = Len(Entries)
           /\ \A j \in 1..Len(Entries) :
                 RangeParses(Entries[j])
                    => /\ RangeStart(j) <= RangeEnd(j)
                       /\ Len(ret.data[j]) = RangeEnd(j) - RangeStart(j) + 1
                       /\ \A i \in 1..Len(ret.data[j]) :
                             /\ RangeStart(j) + i - 1 \in 1..N
                             /\ ret.data[j][i] = D[RangeStart(j) + i - 1]

\* C5: a 'pages' split returns one document per listed page number, in order,
\* each holding exactly that one page of D.
C5_OneSinglePageDocumentPerNumber ==
    (/\ Called("split_pdf")
     /\ call.split_type = "pages"
     /\ call.split_value # <<>>
     /\ ret.status = "ok")
        => /\ Len(ret.data) = Len(Entries)
           /\ \A j \in 1..Len(Entries) :
                 /\ Len(ret.data[j]) = 1
                 /\ PyInt(Entries[j]) \in 1..N
                 /\ ret.data[j][1] = D[PyInt(Entries[j])]

\* Some listed page number, or some bound of a listed range, lies outside
\* [1, page count].
ListsOutOfRange ==
    \/ /\ call.split_type = "pages"
       /\ \A j \in 1..Len(Entries) : IsIntLiteral(Entries[j])
       /\ \E j \in 1..Len(Entries) : PyInt(Entries[j]) \notin 1..N
    \/ /\ call.split_type = "range"
       /\ \A j \in 1..Len(Entries) : RangeParses(Entries[j])
       /\ \E j \in 1..Len(Entries) : RangeStart(j) \notin 1..N \/ RangeEnd(j) \notin 1..N

\* C6: split_pdf fails, returning no document, whenever a listed page number
\* or range bound is < 1 or > page count.
C6_SplitOutOfRangeFails ==
    (Called("split_pdf") /\ ListsOutOfRange)
        => ret.status = "error" /\ ret.data = <<>>

\* C7: rearrange_pages produces no document whenever new_order holds an entry
\* outside [1, page count].
C7_RearrangeOutOfRangeFails ==
    (Called("rearrange_pages") /\ \E i \in 1..Len(call.pages) : call.pages[i] \notin 1..N)
        => ret.status = "error" /\ ret.data = <<>>

\* The number of pages of the files before file k.
RECURSIVE PagesBefore(_)
PagesBefore(k) == IF k <= 1 THEN 0 ELSE PagesBefore(k - 1) + Len(uploaded[k - 1])

\* C8: merging a non-empty list of documents gives the sum of their page
\* counts, the pages of the first, then those of the second, and so on, each
\* in its own order.
C8_MergeConcatenates ==
    (call.name = "merge_pdfs" /\ call.source = "uploaded" /\ uploaded # <<>>)
        => /\ ret.status = "ok"
           /\ Len(Out) = PagesBefore(Len(uploaded) + 1)
           /\ \A k \in 1..Len(uploaded) : \A i \in 1..Len(uploaded[k]) :
                 Out[PagesBefore(k) + i] = uploaded[k][i]

\* Three files with 2, 1 and 3 pages have been merged.
C8_Witness ==
    /\ call.name = "merge_pdfs"
    /\ call.source = "uploaded"
    /\ Len(uploaded) = 3
    /\ Len(uploaded[1]) = 2
    /\ Len(uploaded[2]) = 1
    /\ Len(uploaded[3]) = 3
    /\ ret.status = "ok"

\* C9: merge_pdfs of zero documents fails with EmptyInput, and no document
\* without pages is handed to save.
C9_MergeNothingIsEmptyInput ==
    (call.name = "merge_pdfs" /\ call.source = "uploaded" /\ uploaded = <<>>)
        => /\ ret.status = "error"
           /\ ret.err = "EmptyInput"
           /\ \A i \in 1..Len(ret.saves) : ret.saves[i] # 0

\* The pages a rotate_pages call names.
Selected(i) == call.all \/ \E j \in 1..Len(call.pages) : call.pages[j] = i

\* C10: one rotate_pages call leaves each selected page at (previous rotation
\* + angle) mod 360, and four calls with 90 on all pages restore every page's
\* rotation.
C10_RotationIsAdditive ==
    /\ (Called("rotate_pages") /\ call.round = 1 /\ ret.status = "ok")
          => \A i \in 1..N :
                Selected(i) => Out[i].rot = (D[i].rot + call.angle) % 360
    /\ (/\ Called("rotate_pages")
        /\ call.round = 4
        /\ call.angle = 90
        /\ call.all
        /\ ret.status = "ok")
          => \A i \in 1..N : Out[i].rot = D[i].rot

---------------------------------------------------------------------------
(* Uploaded files as byte streams with a read cursor (security, editing    *)
(* and annotation tools).                                                  *)
(*                                                                         *)
(* Under FileSpec, uploaded is <<>> or <<pdf_file>>, where pdf_file is the *)
(* UploadedFile handle [content, pos].  Bytes are described by what they   *)
(* encode: a record [size, pages, method, user_pw, owner_pw, permissions]; *)
(* b'' has size 0.  A page here is a record [num, text, marks]: its        *)
(* position in the upload, the boxes <<x0, y0, x1, y1>> of its text items  *)
(* and the items drawn or annotated on it, in order.  A size is counted in *)
(* abstract units, one per page for a document as Document.save writes it. *)

MaxFilePages == 2
MaxAreas == 2
\* The most pages of a file given to the compression tool.
MaxSize == 3
\* The most files in a list given to images_to_pdf.
MaxImages == 2

\* Python's None, where a str is expected.
None == "None"

\* b''
EmptyBytes ==
    [size |-> 0, pages |-> <<>>, method |-> "NONE", user_pw |-> "",
     owner_pw |-> "", permissions |-> 0]

\* The text items of every page of an upload.
PageText == {<<0, 0, 2, 1>>, <<1, 0, 3, 1>>}

\* fitz.PDF_PERM_*
permission_flags ==
    [print |-> 4, copy |-> 16, annotate |-> 32, form |-> 256,
     accessibility |-> 512, assemble |-> 1024, print_high |-> 2048]

\* Document.permissions of a document without encryption: every bit set.
AllPermissions == 4095

\* An unprotected PDF file of n pages of the size A4 (595 x 842 points).
PlainPdf(n) ==
    [size |-> n,
     pages |-> [i \in 1..n |-> [num |-> i, text |-> PageText, marks |-> <<>>,
                                width |-> 595, height |-> 842]],
     method |-> "NONE", user_pw |-> "", owner_pw |-> "",
     permissions |-> AllPermissions]

\* An unprotected PDF file of n pages that are w points wide and h high.
SizedPdf(n, w, h) ==
    [PlainPdf(n) EXCEPT
        !.pages = [i \in 1..n |-> [@[i] EXCEPT !.width = w, !.height = h]]]

\* pdf_file.read(): the bytes from the cursor to the end.
Read(pdf_file) == IF pdf_file.pos = 0 THEN pdf_file.content ELSE EmptyBytes

\* The handle after read(): the cursor is at the end.
AfterRead(pdf_file) == [pdf_file EXCEPT !.pos = pdf_file.content.size]

\* pdf_file.getvalue(): the whole buffer, wherever the cursor is.
GetValue(pdf_file) == pdf_file.content

\* fitz.open(stream=..., filetype="pdf") raises on an empty stream.
CanOpen(stream) == stream.size > 0

\* Document.needs_pass: MuPDF first tries the empty password.
NeedsPass(stream) ==
    /\ stream.method # "NONE"
    /\ stream.user_pw # ""
    /\ stream.owner_pw # ""

\* Document.authenticate(password): 0 on failure, bit 2 for the user
\* password, bit 4 for the owner password.
Authenticate(stream, password) ==
    (IF password = stream.user_pw THEN 2 ELSE 0)
        + (IF password = stream.owner_pw THEN 4 ELSE 0)

\* doc.save(output): the default encryption = PDF_ENCRYPT_KEEP keeps the
\* protection of the opened document.
SaveKeep(stream, pages) == [stream EXCEPT !.pages = pages, !.size = Len(pages)]

\* doc.save(output, encryption = method, user_pw, owner_pw, permissions)
SaveEncrypted(stream, method, user_pw, owner_pw, permissions) ==
    [size |-> Len(stream.pages), pages |-> stream.pages, method |-> method,
     user_pw |-> user_pw, owner_pw |-> owner_pw, permissions |-> permissions]

\* doc.save(output, encryption = fitz.PDF_ENCRYPT_NONE)
SaveDecrypted(stream) ==
    SaveEncrypted(stream, "NONE", "", "", AllPermissions)

\* Document.load_page(page_id) for page_id < len(doc): while page_id < 0,
\* page_id += page_count.  The result is the 1-indexed position in pages.
LoadPage(page_count, page_id) == (page_id % page_count) + 1

\* A document that still waits for its password answers len(doc), but
\* Document.load_page and Document.save raise
\* ValueError("document closed or encrypted").  reached_save tells which of
\* the two raised: the document was handed to save, or a page was asked for
\* before.
Locked(stream, reached_save) ==
    Raise("document closed or encrypted",
          IF reached_save THEN <<Len(stream.pages)>> ELSE <<>>)

---------------------------------------------------------------------------
(* PDFEditor: the operations on one page.                                  *)

\* doc.load_page(page_num) followed by one insert_* / add_*_annot / draw_*.
AddMark(pages, page_num, mark) ==
    [pages EXCEPT ![LoadPage(Len(pages), page_num)].marks = Append(@, mark)]

\* The body the ten operations share: open the bytes read from the handle,
\* change the page "if page_num < len(doc)", save.  On a document that still
\* needs its password load_page raises, and with page_num >= len(doc) save.
\* raised names the exception of the statements behind load_page ("" when
\* there is none), marks are the items they put on the page.
SinglePageEdit(pdf_file, page_num, raised, marks) ==
    LET stream == Read(pdf_file)
    IN  IF ~CanOpen(stream) THEN Raise("EmptyFileError", <<>>)
        ELSE IF NeedsPass(stream)
        THEN Locked(stream, page_num >= Len(stream.pages))
        ELSE IF page_num < Len(stream.pages) /\ raised # ""
        THEN Raise(raised, <<>>)
        ELSE LET pages ==
                    IF page_num < Len(stream.pages)
                    THEN [stream.pages EXCEPT
                            ![LoadPage(Len(stream.pages), page_num)].marks = @ \o marks]
                    ELSE stream.pages
             IN  Return(<<SaveKeep(stream, pages)>>, <<Len(pages)>>)

\* The font names Page.insert_font knows without a font file: the keys of
\* fitz.Base14_fontdict.
Base14_fontdict ==
    {"helv", "heit", "hebo", "hebi", "cour", "coit", "cobo", "cobi",
     "tiro", "tibo", "tiit", "tibi", "symb", "zadb"}

\* page.insert_text(point, text, fontname, rotate): an empty text draws
\* nothing and returns; otherwise a font name that is no Base14 key raises
\* ValueError("need font file or buffer") and a rotation that is no multiple
\* of 90 raises ValueError("bad rotate value").
InsertTextFails(text, fontname, rotate) ==
    /\ text # ""
    /\ \/ fontname \notin Base14_fontdict
       \/ rotate % 90 # 0

\* fitz.Rect(rect_coords).is_empty: nothing is normalised.
IsEmptyRect(rect) == rect[1] >= rect[3] \/ rect[2] >= rect[4]

\* tuple(int(color[i:i+2], 16)/255.0 for i in (1, 3, 5)) does not raise:
\* color is a str, each of the three slices a literal of base 16.
ColorParses(color) == \A i \in {1, 3, 5} : IsHexLiteral(PySlice(color, i, i + 2))

\* The three components, in 255ths, for a color with ColorParses(color).
ColorRgb(color) ==
    [k \in 1..3 |-> PyIntHex(PySlice(color, 2 * k - 1, 2 * k + 1))]

\* fitz checks a color where it is drawn (CheckColor): ValueError unless the
\* components are in the range 0 to 1.  A slice like "-1" parses and is
\* below.
ColorInRange(color) ==
    \A k \in 1..3 : 0 <= ColorRgb(color)[k] /\ ColorRgb(color)[k] <= 255

\* The color is parsed behind load_page; insert_text returns on an empty
\* text before it looks at font or color.
add_text(pdf_file, text, page_num, color) ==
    SinglePageEdit(pdf_file, page_num,
                   IF ~ColorParses(color) THEN "ValueError"
                   ELSE IF text # "" /\ (InsertTextFails(text, "helv", 0)
                                         \/ ~ColorInRange(color))
                   THEN "ValueError"
                   ELSE "",
                   IF text = "" THEN <<>> ELSE <<[kind |-> "text"]>>)

\* image_file is [ok, width, height]: Image.open raises
\* UnidentifiedImageError on a file that is no image.  width and height are
\* <<>> for None, which stands for the size of the image, or <<n>>.
\* page.insert_image(rect) raises ValueError("rect must be finite and not
\* empty").
ImageRect(image_file, width, height) ==
    <<0, 0,
      IF width = <<>> THEN image_file.width ELSE width[1],
      IF height = <<>> THEN image_file.height ELSE height[1]>>

add_image(pdf_file, image_file, page_num, width, height) ==
    SinglePageEdit(pdf_file, page_num,
                   IF ~image_file.ok THEN "UnidentifiedImageError"
                   ELSE IF IsEmptyRect(ImageRect(image_file, width, height))
                   THEN "ValueError"
                   ELSE "",
                   <<[kind |-> "image"]>>)

\* The color is parsed before page.add_highlight_annot(rect).  That and the
\* three other text markers check their argument (CheckMarkerArg): an empty
\* rectangle raises ValueError("bad quads entry"); set_colors checks the
\* color.
TextMarker(pdf_file, page_num, rect_coords, color, kind) ==
    SinglePageEdit(pdf_file, page_num,
                   IF ~ColorParses(color) THEN "ValueError"
                   ELSE IF IsEmptyRect(rect_coords) \/ ~ColorInRange(color)
                   THEN "ValueError"
                   ELSE "",
                   <<[kind |-> kind, rect |-> rect_coords]>>)

add_highlight(pdf_file, page_num, rect_coords, color) ==
    TextMarker(pdf_file, page_num, rect_coords, color, "highlight")

add_underline(pdf_file, page_num, rect_coords, color) ==
    TextMarker(pdf_file, page_num, rect_coords, color, "underline")

add_strikeout(pdf_file, page_num, rect_coords, color) ==
    TextMarker(pdf_file, page_num, rect_coords, color, "strikeout")

add_squiggly(pdf_file, page_num, rect_coords, color) ==
    TextMarker(pdf_file, page_num, rect_coords, color, "squiggly")

\* note.set_info(icon=icon): Annot.set_info has no parameter icon, the call
\* raises TypeError whenever the page is there.
add_note(pdf_file, page_num) ==
    SinglePageEdit(pdf_file, page_num, "TypeError", <<[kind |-> "note"]>>)

\* page.add_freetext_annot(rect, ...) raises ValueError for an empty
\* rectangle.
add_text_annotation(pdf_file, page_num, rect_coords) ==
    SinglePageEdit(pdf_file, page_num,
                   IF IsEmptyRect(rect_coords) THEN "ValueError" ELSE "",
                   <<[kind |-> "freetext", rect |-> rect_coords]>>)

\* The color is parsed for the call of insert_text(..., fontname =
\* "helv-bo"), whatever the text; then draw_rect(rect, color), which draws
\* whatever rectangle it is given and checks the color.
add_stamp(pdf_file, page_num, rect_coords, stamp_text, color) ==
    SinglePageEdit(pdf_file, page_num,
                   IF ~ColorParses(color) THEN "ValueError"
                   ELSE IF InsertTextFails(stamp_text, "helv-bo", 0)
                           \/ ~ColorInRange(color)
                   THEN "ValueError"
                   ELSE "",
                   <<[kind |-> "stamp", rect |-> rect_coords,
                      text |-> stamp_text]>>)

\* "if fill_color:" is false for None and for '', both written <<>>; a
\* line takes no fill.
FillFails(shape_type, fill_color) ==
    /\ shape_type \in {"rectangle", "circle"}
    /\ fill_color # <<>>
    /\ ~(ColorParses(fill_color) /\ ColorInRange(fill_color))

\* fitz.Rect(coords) wants four numbers, "x, y, radius = coords" three and
\* "p1, p2 = coords" two points: ValueError otherwise.  draw_circle raises
\* ValueError("radius must be positive").
CoordsFail(shape_type, coords) ==
    \/ shape_type = "rectangle" /\ Len(coords) # 4
    \/ shape_type = "circle" /\ (Len(coords) # 3 \/ coords[3] <= 0)
    \/ shape_type = "line" /\ Len(coords) # 2

\* The color is parsed behind load_page, whatever the shape; then draw_rect,
\* draw_circle or draw_line by shape_type; any other shape_type draws
\* nothing and the document is saved as it was opened.
add_shape(pdf_file, page_num, shape_type, coords, color, fill_color) ==
    SinglePageEdit(pdf_file, page_num,
                   IF ~ColorParses(color) THEN "ValueError"
                   ELSE IF /\ shape_type \in {"rectangle", "circle", "line"}
                           /\ \/ CoordsFail(shape_type, coords)
                              \/ FillFails(shape_type, fill_color)
                              \/ ~ColorInRange(color)
                   THEN "ValueError"
                   ELSE "",
                   IF shape_type = "rectangle"
                   THEN <<[kind |-> "shape", shape_type |-> shape_type,
                           rect |-> coords]>>
                   ELSE IF shape_type \in {"circle", "line"}
                   THEN <<[kind |-> "shape", shape_type |-> shape_type,
                           coords |-> coords]>>
                   ELSE <<>>)

SinglePageOps ==
    {"add_text", "add_image", "add_highlight", "add_underline", "add_strikeout",
     "add_squiggly", "add_note", "add_text_annotation", "add_stamp", "add_shape"}

---------------------------------------------------------------------------
(* PDFSecurity: passwords and the security report.                         *)

encryption_methods ==
    [AES_128 |-> "AES_128", AES_256 |-> "AES_256",
     RC4_40 |-> "RC4_40", RC4_128 |-> "RC4_128"]

\* mask & flag != 0, for a flag of one bit
HasBit(mask, flag) == (mask \div flag) % 2 = 1

\* mask | flag, for a flag of one bit
BitOr(mask, flag) == IF HasBit(mask, flag) THEN mask ELSE mask + flag

\* permissions = None is written <<None>>.
NoneList == <<None>>

\* for perm in permissions:
\*     if perm in self.permission_flags: perm_flags |= self.permission_flags[perm]
RECURSIVE PermFlagsLoop(_, _)
PermFlagsLoop(permissions, perm_flags) ==
    IF permissions = <<>> THEN perm_flags
    ELSE LET perm == Head(permissions)
         IN  PermFlagsLoop(Tail(permissions),
                           IF perm \in DOMAIN permission_flags
                           THEN BitOr(perm_flags, permission_flags[perm])
                           ELSE perm_flags)

\* self.encryption_methods.get(encryption_method, fitz.PDF_ENCRYPT_AES_256)
EncryptMethod(encryption_method) ==
    IF encryption_method \in DOMAIN encryption_methods
    THEN encryption_methods[encryption_method]
    ELSE "AES_256"

\* The result carries the bytes and the encryption_info.  Every exception is
\* raised again as ValueError("Failed to add password protection: ...");
\* err names the cause.
add_password(pdf_file, user_password, owner_password, encryption_method, permissions) ==
    LET stream == Read(pdf_file)
        owner_pw == IF owner_password = None THEN user_password ELSE owner_password
        perms == IF permissions = NoneList
                 THEN <<"print", "copy", "annotate">>
                 ELSE permissions
        perm_flags == PermFlagsLoop(perms, 0)
        encrypt_method == EncryptMethod(encryption_method)
    IN  IF ~CanOpen(stream) THEN Raise("EmptyFileError", <<>>)
        ELSE IF NeedsPass(stream)
        THEN Locked(stream, TRUE)
        ELSE Return(<<SaveEncrypted(stream, encrypt_method, user_password,
                                    owner_pw, perm_flags),
                      [method |-> encryption_method, permissions |-> perms]>>,
                    <<Len(stream.pages)>>)

\* Every exception, the "Incorrect password provided" one included, is
\* raised again as ValueError("Failed to remove password: ...").
remove_password(pdf_file, password) ==
    LET stream == Read(pdf_file)
    IN  IF ~CanOpen(stream) THEN Raise("EmptyFileError", <<>>)
        ELSE IF NeedsPass(stream) /\ Authenticate(stream, password) = 0
             THEN Raise("Incorrect password provided", <<>>)
        ELSE Return(<<SaveDecrypted(stream)>>, <<Len(stream.pages)>>)

\* The permissions entry of the report of an authenticated document.
PermissionReport(stream) ==
    [can_print |-> HasBit(stream.permissions, permission_flags.print),
     can_copy |-> HasBit(stream.permissions, permission_flags.copy),
     can_annotate |-> HasBit(stream.permissions, permission_flags.annotate),
     can_form |-> HasBit(stream.permissions, permission_flags.form),
     can_accessibility |-> HasBit(stream.permissions, permission_flags.accessibility),
     can_assemble |-> HasBit(stream.permissions, permission_flags.assemble),
     can_print_hq |-> HasBit(stream.permissions, permission_flags.print_high)]

\* The metadata entry: the page count (the document's info strings are not
\* modelled).
MetadataReport(stream) == [page_count |-> Len(stream.pages)]

\* {}
EmptyDict == <<>>

\* is_authenticated is a Python truth value: False is 0, True is 1, and
\* doc.authenticate returns 0, 2, 4 or 6.  Document.is_encrypted is true
\* exactly while the document waits for its password.
check_pdf_security(pdf_file, password) ==
    LET stream == Read(pdf_file)
        is_authenticated ==
            IF NeedsPass(stream) /\ password # None /\ password # ""
            THEN Authenticate(stream, password)
            ELSE IF ~NeedsPass(stream) THEN 1
            ELSE 0
    IN  IF ~CanOpen(stream) THEN Raise("EmptyFileError", <<>>)
        ELSE Return(<<[is_encrypted |-> NeedsPass(stream),
                       needs_password |-> NeedsPass(stream),
                       is_authenticated |-> is_authenticated,
                       permissions |-> IF is_authenticated # 0
                                       THEN PermissionReport(stream)
                                       ELSE EmptyDict,
                       metadata |-> IF is_authenticated # 0
                                    THEN MetadataReport(stream)
                                    ELSE EmptyDict]>>,
                    <<>>)

---------------------------------------------------------------------------
(* PDFSecurity: compression, redaction and the file hash.                  *)

\* The dict compression_settings: the keyword arguments of doc.save for
\* each level.
compression_settings ==
    [low |-> [deflate |-> 1, deflate_images |-> FALSE, garbage |-> 1],
     medium |-> [deflate |-> 6, deflate_images |-> TRUE, garbage |-> 2,
                 clean |-> TRUE],
     high |-> [deflate |-> 9, deflate_images |-> TRUE, garbage |-> 3,
               clean |-> TRUE, sanitize |-> TRUE],
     maximum |-> [deflate |-> 9, deflate_images |-> TRUE, garbage |-> 4,
                  clean |-> TRUE, sanitize |-> TRUE, ascii |-> TRUE]]

compression_levels == DOMAIN compression_settings

\* compression_settings.get(compression_level, compression_settings["medium"])
CompressionSettings(compression_level) ==
    IF compression_level \in compression_levels
    THEN compression_settings[compression_level]
    ELSE compression_settings["medium"]

\* The keyword parameters of fitz.Document.save.  A call with any other
\* keyword raises TypeError before the body of save runs.
SaveKeywords ==
    {"garbage", "clean", "deflate", "deflate_images", "deflate_fonts",
     "incremental", "ascii", "expand", "linear", "no_new_id", "appearance",
     "pretty", "encryption", "permissions", "owner_pw", "user_pw",
     "preserve_metadata", "use_objstms", "compression_effort"}

---------------------------------------------------------------------------
(* Python's float, for (1 - compressed_size / original_size) * 100 and     *)
(* round(..., 2).  A float is [sign, m, e], the number sign * m * 2^e with *)
(* m a sequence of binary digits, the most significant first.  Every       *)
(* operation gives the double nearest to the exact result, as IEEE 754     *)
(* arithmetic does; sizes are below 2^24 and ratios below 2^31 hundredths. *)

Zeros(n) == [i \in 1..n |-> 0]

\* The w binary digits of n < 2^w, the most significant first.
BitsOf(n, w) == [i \in 1..w |-> (n \div 2^(w - i)) % 2]

\* The number with the binary digits b, for at most 30 digits.
RECURSIVE BitsValue(_)
BitsValue(b) ==
    IF Len(b) = 0 THEN 0
    ELSE IF Len(b) = 1 THEN b[1]
    ELSE LET h == Len(b) \div 2
         IN  BitsValue(SubSeq(b, 1, h)) * 2^(Len(b) - h)
                + BitsValue(SubSeq(b, h + 1, Len(b)))

\* b without its leading zeros.
StripZeros(b) ==
    IF \A i \in 1..Len(b) : b[i] = 0 THEN <<>>
    ELSE SubSeq(b, CHOOSE i \in 1..Len(b) :
                       b[i] = 1 /\ \A j \in 1..(i - 1) : b[j] = 0,
                Len(b))

\* b + 1
BitsInc(b) ==
    IF \A i \in 1..Len(b) : b[i] = 1 THEN <<1>> \o Zeros(Len(b))
    ELSE LET p == CHOOSE i \in 1..Len(b) :
                      b[i] = 0 /\ \A j \in (i + 1)..Len(b) : b[j] = 1
         IN  [i \in 1..Len(b) |-> IF i < p THEN b[i] ELSE IF i = p THEN 1 ELSE 0]

\* b * k for b of at most 60 digits and 0 < k < 128: three limbs of 20 digits.
BitsTimes(b, k) ==
    LET padded == Zeros(60 - Len(b)) \o b
        low == BitsValue(SubSeq(padded, 41, 60)) * k
        mid == BitsValue(SubSeq(padded, 21, 40)) * k + low \div 2^20
        high == BitsValue(SubSeq(padded, 1, 20)) * k + mid \div 2^20
    IN  StripZeros(BitsOf(high, 27) \o BitsOf(mid % 2^20, 20) \o BitsOf(low % 2^20, 20))

\* A float: sign * m * 2^e with m in binary digits.  The double nearest to
\* the number m * 2^e (and a rest below the last digit when sticky): 53
\* digits are kept, a tie goes to the even neighbour.
RoundDouble(sign, m, e, sticky) ==
    IF Len(m) <= 53 THEN [sign |-> sign, m |-> m, e |-> e]
    ELSE LET kept == SubSeq(m, 1, 53)
             rest == sticky \/ \E i \in 55..Len(m) : m[i] = 1
             up == m[54] = 1 /\ (rest \/ kept[53] = 1)
         IN  [sign |-> sign, m |-> IF up THEN BitsInc(kept) ELSE kept,
              e |-> e + Len(m) - 53]

\* c / o for ints 0 <= c < 2^24 and 0 < o < 2^24: the quotient is divided
\* out to 91 binary digits behind the point, seven at a time.
TrueDivide(c, o) ==
    LET rest[i \in 0..13] == IF i = 0 THEN c % o ELSE (rest[i - 1] * 128) % o
        fraction == [j \in 1..91 |->
                        (((rest[(j - 1) \div 7] * 128) \div o)
                            \div 2^(6 - ((j - 1) % 7))) % 2]
    IN  RoundDouble(1, StripZeros(BitsOf(c \div o, 24) \o fraction), -91,
                    rest[13] # 0)

\* 1 - f for a float f >= 0 with f.e < 0
OneMinus(f) ==
    LET n == 0 - f.e
        whole == BitsValue(SubSeq(f.m, 1, Len(f.m) - n))
        fraction == SubSeq(f.m, Len(f.m) - n + 1, Len(f.m))
        padded == Zeros(n - Len(f.m)) \o f.m
    IN  IF f.m = <<>> THEN [sign |-> 1, m |-> <<1>>, e |-> 0]
        ELSE IF Len(f.m) <= n
        THEN RoundDouble(1, StripZeros(BitsInc([i \in 1..n |-> 1 - padded[i]])),
                         f.e, FALSE)
        ELSE RoundDouble(-1, StripZeros(BitsOf(whole - 1, 30) \o fraction),
                         f.e, FALSE)

\* f * k for 0 < k < 128
FloatTimes(f, k) == RoundDouble(f.sign, BitsTimes(f.m, k), f.e, FALSE)

\* round(f, 2), in hundredths
Round2(f) ==
    LET m == BitsTimes(f.m, 100)
        n == 0 - f.e
        whole == IF Len(m) <= n THEN 0 ELSE BitsValue(SubSeq(m, 1, Len(m) - n))
        fraction == IF Len(m) <= n THEN Zeros(n - Len(m)) \o m
                    ELSE SubSeq(m, Len(m) - n + 1, Len(m))
        up == /\ fraction[1] = 1
              /\ (whole % 2 = 1 \/ \E i \in 2..n : fraction[i] = 1)
    IN  IF f.e >= 0 THEN f.sign * BitsValue(m) * 2^f.e
        ELSE f.sign * (whole + IF up THEN 1 ELSE 0)

\* round((1 - compressed_size / original_size) * 100, 2), in hundredths of a
\* percent.
CompressionRatio(original_size, compressed_size) ==
    Round2(FloatTimes(OneMinus(TrueDivide(compressed_size, original_size)), 100))

\* The document is opened from read() and the original size taken from
\* getvalue().  doc.save(output, **settings) is called with the keywords of
\* the level: "sanitize" is no parameter of save, the call raises TypeError
\* for 'high' and 'maximum'.  compressed_size is the length of what save
\* wrote.  Every exception is raised again as
\* ValueError("Failed to compress PDF: ...").
compress_pdf(pdf_file, compression_level) ==
    LET stream == Read(pdf_file)
        settings == CompressionSettings(compression_level)
        original_size == GetValue(pdf_file).size
    IN  IF ~CanOpen(stream) THEN Raise("EmptyFileError", <<>>)
        ELSE IF ~(DOMAIN settings \subseteq SaveKeywords)
        THEN Raise("TypeError", <<>>)
        ELSE IF NeedsPass(stream)
        THEN Locked(stream, TRUE)
        ELSE LET compressed_data == SaveKeep(stream, stream.pages)
                 compressed_size == compressed_data.size
             IN  Return(<<compressed_data,
                          [original_size |-> original_size,
                           compressed_size |-> compressed_size,
                           compression_ratio |->
                               CompressionRatio(original_size, compressed_size),
                           compression_level |-> compression_level]>>,
                        <<Len(stream.pages)>>)

\* Two boxes <<x0, y0, x1, y1>> share an area.
Intersects(box, rect) ==
    /\ box[1] < rect[3]
    /\ rect[1] < box[3]
    /\ box[2] < rect[4]
    /\ rect[2] < box[4]

\* box lies fully inside rect.
Inside(box, rect) ==
    /\ rect[1] <= box[1]
    /\ box[3] <= rect[3]
    /\ rect[2] <= box[2]
    /\ box[4] <= rect[4]

\* The loop adding a redaction for the first area only.
RECURSIVE RedactAnnotsFirstOnly(_, _)
RedactAnnotsFirstOnly(redaction_areas, annots) ==
    IF redaction_areas = <<>> THEN annots
    ELSE Append(annots, [kind |-> "redact", rect |-> Head(redaction_areas)])

\* for area in redaction_areas: page.add_redact_annot(fitz.Rect(x1, y1, x2, y2))
RECURSIVE RedactAnnots(_, _)
RedactAnnots(redaction_areas, annots) ==
    IF redaction_areas = <<>> THEN annots
    ELSE RedactAnnots(Tail(redaction_areas),
                      Append(annots, [kind |-> "redact", rect |-> Head(redaction_areas)]))

\* page.apply_redactions(): a text item inside a redaction rectangle is
\* removed from the page; one that only overlaps it is removed or kept
\* (remove_overlapping) as the library decides; every rectangle is filled.
ApplyRedactions(page, annots, remove_overlapping) ==
    [page EXCEPT
        !.text = {box \in @ :
                    \A i \in 1..Len(annots) :
                        /\ ~Inside(box, annots[i].rect)
                        /\ ~(remove_overlapping /\ Intersects(box, annots[i].rect))},
        !.marks = @ \o annots]

\* Every exception is raised again as ValueError("Failed to redact content: ...").
redact_content(pdf_file, redaction_areas, page_num, remove_overlapping) ==
    LET stream == Read(pdf_file)
    IN  IF ~CanOpen(stream) THEN Raise("EmptyFileError", <<>>)
        ELSE IF NeedsPass(stream)
        THEN Locked(stream, page_num >= Len(stream.pages))
        ELSE LET pages ==
                    IF page_num < Len(stream.pages)
                    THEN [stream.pages EXCEPT
                            ![LoadPage(Len(stream.pages), page_num)] =
                                ApplyRedactions(@, RedactAnnots(redaction_areas, <<>>),
                                                remove_overlapping)]
                    ELSE stream.pages
             IN  Return(<<SaveKeep(stream, pages),
                          [areas_redacted |-> Len(redaction_areas),
                           page |-> page_num + 1]>>,
                        <<Len(pages)>>)

hash_algorithms == {"md5", "sha1", "sha256", "sha512"}

\* hashlib.<algorithm>(content).hexdigest(): different contents or algorithms
\* give different digests.
HexDigest(algorithm, content) == <<algorithm, content>>

\* content = pdf_file.read(): the hash and file_size are those of the bytes
\* from the cursor on.
generate_file_hash(pdf_file, algorithm) ==
    LET used == IF algorithm \notin hash_algorithms THEN "sha256" ELSE algorithm
        content == Read(pdf_file)
    IN  Return(<<[hash |-> HexDigest(used, content),
                  algorithm |-> used,
                  file_size |-> content.size]>>,
               <<>>)

---------------------------------------------------------------------------
(* PDFEditor: previews, and text on the selected pages.                    *)

max_pages_preview == 20

\* page.get_pixmap(...).tobytes("png"), base64-encoded: the image shows the
\* text and the items of the page.
Render(page) == [text |-> page.text, marks |-> page.marks]

\* Every exception is raised again as ValueError("Failed to generate
\* preview: ..."); load_page raises for page_num >= len(doc).
get_pdf_preview(pdf_file, page_num) ==
    LET stream == Read(pdf_file)
    IN  IF ~CanOpen(stream) THEN Raise("EmptyFileError", <<>>)
        ELSE IF NeedsPass(stream)
        THEN Locked(stream, FALSE)
        ELSE IF page_num >= Len(stream.pages) THEN Raise("page not in document", <<>>)
        ELSE LET page == stream.pages[LoadPage(Len(stream.pages), page_num)]
             IN  Return(<<Render(page),
                          [width |-> page.width, height |-> page.height,
                           page_count |-> Len(stream.pages)]>>,
                        <<>>)

\* The thumbnails of the first min(len(doc), max_pages) pages.
get_all_pages_preview(pdf_file, max_pages) ==
    LET stream == Read(pdf_file)
        total_pages == Min(Len(stream.pages), max_pages)
    IN  IF ~CanOpen(stream) THEN Raise("EmptyFileError", <<>>)
        ELSE IF NeedsPass(stream) /\ total_pages >= 1 THEN Locked(stream, FALSE)
        ELSE Return([i \in 1..total_pages |->
                        [page_num |-> i, image |-> Render(stream.pages[i])]],
                    <<>>)

\* overlay_data is [text, color, rotation]: the text overlay reads text and
\* color, the watermark overlay text and rotation.  The overlay raises
\* where insert_text or the parsing of the color does.
OverlayFails(overlay_type, overlay_data) ==
    \/ /\ overlay_type = "text"
       /\ \/ ~ColorParses(overlay_data.color)
          \/ /\ overlay_data.text # ""
             /\ \/ InsertTextFails(overlay_data.text, "helv", 0)
                \/ ~ColorInRange(overlay_data.color)
    \/ /\ overlay_type = "watermark"
       /\ InsertTextFails(overlay_data.text, "helv-bo", overlay_data.rotation)

\* The items the overlay draws: one for a text or watermark that is not
\* empty, none for another overlay_type.
OverlayMarks(overlay_type, overlay_data) ==
    IF overlay_type \in {"text", "watermark"} /\ overlay_data.text # ""
    THEN <<[kind |-> overlay_type]>>
    ELSE <<>>

\* The overlay drawn on the page of the opened document itself.
PreviewDocsOnOriginal(pages, page_num, marks) ==
    LET overlaid == [pages EXCEPT ![LoadPage(Len(pages), page_num)].marks = @ \o marks]
        page == overlaid[LoadPage(Len(pages), page_num)]
    IN  [doc |-> overlaid,
         preview_doc |->
            <<[num |-> 1, text |-> page.text, marks |-> page.marks,
               width |-> page.width, height |-> page.height]>>]

\* The two documents of create_preview_with_overlay when they are closed:
\* doc, opened from the bytes, and preview_doc, whose one new page shows page
\* page_num of doc (show_pdf_page) and takes the overlay (insert_text).
PreviewDocs(pages, page_num, marks) ==
    LET page == pages[LoadPage(Len(pages), page_num)]
        preview_page == [num |-> 1, text |-> page.text, marks |-> page.marks,
                         width |-> page.width, height |-> page.height]
    IN  [doc |-> pages,
         preview_doc |-> <<[preview_page EXCEPT !.marks = @ \o marks]>>]

\* Returns the image of the preview page; data[2] records the pages of doc
\* at doc.close().  Nothing is saved.
create_preview_with_overlay(pdf_file, page_num, overlay_type, overlay_data) ==
    LET stream == Read(pdf_file)
    IN  IF ~CanOpen(stream) THEN Raise("EmptyFileError", <<>>)
        ELSE IF NeedsPass(stream)
        THEN Locked(stream, FALSE)
        ELSE IF page_num >= Len(stream.pages) THEN Raise("page not in document", <<>>)
        ELSE IF OverlayFails(overlay_type, overlay_data)
        THEN Raise("ValueError", <<>>)
        ELSE LET docs == PreviewDocs(stream.pages, page_num,
                                     OverlayMarks(overlay_type, overlay_data))
             IN  Return(<<Render(docs.preview_doc[1]), docs.doc>>, <<>>)

\* for page_num in pages: if page_num - 1 < len(doc): insert_text on page
\* page_num - 1, for a text that is not empty
RECURSIVE AddTextLoop(_, _)
AddTextLoop(doc, pages) ==
    IF pages = <<>> THEN doc
    ELSE AddTextLoop(IF Head(pages) - 1 < Len(doc)
                     THEN AddMark(doc, Head(pages) - 1, [kind |-> "text"])
                     ELSE doc,
                     Tail(pages))

\* The color is parsed before the loop; insert_text returns on an empty
\* text before it looks at the color, and raises at the first page it is
\* called on otherwise.
add_text_with_preview(pdf_file, text, pages, color) ==
    LET stream == Read(pdf_file)
        none == \A i \in 1..Len(pages) : pages[i] - 1 >= Len(stream.pages)
    IN  IF ~CanOpen(stream) THEN Raise("EmptyFileError", <<>>)
        ELSE IF ~ColorParses(color) THEN Raise("ValueError", <<>>)
        ELSE IF NeedsPass(stream) THEN Locked(stream, none)
        ELSE IF /\ ~none
                /\ text # ""
                /\ (InsertTextFails(text, "helv", 0) \/ ~ColorInRange(color))
        THEN Raise("ValueError", <<>>)
        ELSE Return(<<SaveKeep(stream,
                               IF text = "" THEN stream.pages
                               ELSE AddTextLoop(stream.pages, pages))>>,
                    <<Len(stream.pages)>>)

\* for page_num in pages: if page_num - 1 < len(doc): insert_image on page
\* page_num - 1
RECURSIVE AddImageLoop(_, _)
AddImageLoop(doc, pages) ==
    IF pages = <<>> THEN doc
    ELSE AddImageLoop(IF Head(pages) - 1 < Len(doc)
                      THEN AddMark(doc, Head(pages) - 1, [kind |-> "image"])
                      ELSE doc,
                      Tail(pages))

\* Image.open(image_file) comes before the loop; insert_image raises for an
\* empty rectangle at the first page it is called on.
add_image_with_preview(pdf_file, image_file, pages, width, height) ==
    LET stream == Read(pdf_file)
        none == \A i \in 1..Len(pages) : pages[i] - 1 >= Len(stream.pages)
    IN  IF ~CanOpen(stream) THEN Raise("EmptyFileError", <<>>)
        ELSE IF ~image_file.ok THEN Raise("UnidentifiedImageError", <<>>)
        ELSE IF NeedsPass(stream) THEN Locked(stream, none)
        ELSE IF ~none /\ IsEmptyRect(ImageRect(image_file, width, height))
        THEN Raise("ValueError", <<>>)
        ELSE Return(<<SaveKeep(stream, AddImageLoop(stream.pages, pages))>>,
                    <<Len(stream.pages)>>)

\* The item insert_text draws for a watermark: the text in the gray
\* (0.7, 0.7, 0.7), in tenths, at the size and rotation given.
WatermarkMark(watermark_text, font_size, rotation) ==
    [kind |-> "watermark", text |-> watermark_text, fontsize |-> font_size,
     color |-> <<7, 7, 7>>, rotate |-> rotation]

\* page.insert_text((rect.width/2, rect.height/2), watermark_text, ...,
\* fontname = "helv-bo", rotate = rotation) on the page at index page_id of
\* doc: [raised, doc].
InsertWatermark(doc, page_id, watermark_text, font_size, rotation) ==
    IF InsertTextFails(watermark_text, "helv-bo", rotation)
    THEN [raised |-> TRUE, doc |-> doc]
    ELSE [raised |-> FALSE,
          doc |-> IF watermark_text = "" THEN doc
                  ELSE AddMark(doc, page_id,
                               WatermarkMark(watermark_text, font_size, rotation))]

\* for page_num in pages: if page_num - 1 < len(doc): the watermark on page
\* page_num - 1.  The first insert_text that raises ends the loop.
RECURSIVE WatermarkPagesLoop(_, _, _, _, _)
WatermarkPagesLoop(doc, pages, watermark_text, font_size, rotation) ==
    IF pages = <<>> THEN [raised |-> FALSE, doc |-> doc]
    ELSE IF Head(pages) - 1 < Len(doc)
    THEN LET step == InsertWatermark(doc, Head(pages) - 1, watermark_text,
                                     font_size, rotation)
         IN  IF step.raised THEN step
             ELSE WatermarkPagesLoop(step.doc, Tail(pages), watermark_text,
                                     font_size, rotation)
    ELSE WatermarkPagesLoop(doc, Tail(pages), watermark_text, font_size, rotation)

\* opacity is a parameter the body never reads.
add_watermark_with_preview(pdf_file, watermark_text, pages, opacity, font_size, rotation) ==
    LET stream == Read(pdf_file)
    IN  IF ~CanOpen(stream) THEN Raise("EmptyFileError", <<>>)
        ELSE IF NeedsPass(stream)
        THEN Locked(stream, \A i \in 1..Len(pages) : pages[i] - 1 >= Len(stream.pages))
        ELSE LET loop == WatermarkPagesLoop(stream.pages, pages, watermark_text,
                                            font_size, rotation)
             IN  IF loop.raised THEN Raise("ValueError", <<>>)
                 ELSE Return(<<SaveKeep(stream, loop.doc)>>, <<Len(stream.pages)>>)

\* for page_num in range(len(doc)): the watermark on page page_num.
RECURSIVE WatermarkAllLoop(_, _, _, _, _)
WatermarkAllLoop(doc, page_num, watermark_text, font_size, rotation) ==
    IF page_num >= Len(doc) THEN [raised |-> FALSE, doc |-> doc]
    ELSE LET step == InsertWatermark(doc, page_num, watermark_text, font_size,
                                     rotation)
         IN  IF step.raised THEN step
             ELSE WatermarkAllLoop(step.doc, page_num + 1, watermark_text,
                                   font_size, rotation)

\* opacity is a parameter the body never reads.
add_watermark(pdf_file, watermark_text, opacity, font_size, rotation) ==
    LET stream == Read(pdf_file)
    IN  IF ~CanOpen(stream) THEN Raise("EmptyFileError", <<>>)
        ELSE IF NeedsPass(stream)
        THEN Locked(stream, Len(stream.pages) = 0)
        ELSE LET loop == WatermarkAllLoop(stream.pages, 0, watermark_text,
                                          font_size, rotation)
             IN  IF loop.raised THEN Raise("ValueError", <<>>)
                 ELSE Return(<<SaveKeep(stream, loop.doc)>>, <<Len(stream.pages)>>)

---------------------------------------------------------------------------
(* OCRProcessor: the text of a PDF file and its searchable copy.           *)

\* pytesseract.image_to_string on the image of a page: the OCR engine is
\* outside the program, oracle[i] is what it recognises on page i.
RECURSIVE OcrLoop(_, _, _, _)
OcrLoop(doc, oracle, page_num, extracted_text) ==
    IF page_num >= Len(doc) THEN extracted_text
    ELSE OcrLoop(doc, oracle, page_num + 1,
                 Append(extracted_text,
                        [page |-> page_num + 1, page_text |-> oracle[page_num + 1]]))

\* original_doc.save(output): text is a parameter the body never reads.
create_searchable_pdf(stream, original_doc, text) == SaveKeep(stream, original_doc)

\* No exception is caught.  extracted_text is the sequence of the
\* "--- Page k ---" sections, one per page.
ocr_pdf(pdf_file, oracle) ==
    LET stream == Read(pdf_file)
    IN  IF ~CanOpen(stream) THEN Raise("EmptyFileError", <<>>)
        ELSE IF NeedsPass(stream)
        THEN Locked(stream, Len(stream.pages) = 0)
        ELSE LET extracted_text == OcrLoop(stream.pages, oracle, 0, <<>>)
             IN  Return(<<create_searchable_pdf(stream, stream.pages, extracted_text),
                          extracted_text>>,
                        <<Len(stream.pages)>>)

---------------------------------------------------------------------------
(* SessionManager: st.session_state behind the keys of default_values.     *)

\* self.default_values.  The value of selected_pages is one list object,
\* the same one at every use ("defaults" in heap); preview_zoom 1.5 is
\* counted in tenths.
default_values ==
    [selected_pages |-> "defaults", position_x |-> 100, position_y |-> 100,
     current_page |-> 1, preview_zoom |-> 15, last_operation |-> None]

\* st.session_state[key] = value
SetItem(state, key, value) ==
    [k \in DOMAIN state \cup {key} |-> IF k = key THEN value ELSE state[k]]

\* for key, value in self.default_values.items():
\*     if key not in st.session_state: st.session_state[key] = value
initialize_session(state) ==
    [key \in DOMAIN state \cup DOMAIN default_values |->
        IF key \in DOMAIN state THEN state[key] ELSE default_values[key]]

\* st.session_state.get(key, default)
get(state, key, default) == IF key \in DOMAIN state THEN state[key] ELSE default

set(state, key, value) == SetItem(state, key, value)

update_position(state, x, y) ==
    SetItem(SetItem(state, "position_x", x), "position_y", y)

\* pages is the list object handed over, not a copy of it.
update_selected_pages(state, pages) == SetItem(state, "selected_pages", pages)

\* for key, value in self.default_values.items(): st.session_state[key] = value
reset_session(state) ==
    [key \in DOMAIN state \cup DOMAIN default_values |->
        IF key \in DOMAIN default_values THEN default_values[key] ELSE state[key]]

---------------------------------------------------------------------------
(* UIComponents: the page selector and the position selector.  Each        *)
(* operator gives the session state, the list objects and the value        *)
(* returned at the end of the method.                                      *)

\* list.remove(x): the first occurrence of x is taken out.
RECURSIVE ListRemove(_, _)
ListRemove(list, x) ==
    IF list = <<>> THEN <<>>
    ELSE IF Head(list) = x THEN Tail(list)
    ELSE <<Head(list)>> \o ListRemove(Tail(list), x)

\* x in list
ListHas(list, x) == \E i \in 1..Len(list) : list[i] = x

\* list(range(a, b + 1))
RangeList(a, b) == [i \in 1..(b - a + 1) |-> a + i - 1]

\* session_manager.get('selected_pages', []): the list object the session
\* holds, or a new list when the key is missing ("other": a list nothing
\* else refers to then).
SelectedRef(state) == get(state, "selected_pages", "other")

SelectedList(state, lists) ==
    IF "selected_pages" \in DOMAIN state THEN lists[state["selected_pages"]] ELSE <<>>

\* The button of the thumbnail of page click was pressed (click = 0: no
\* button): the page number is removed from or appended to the list object
\* itself, and the session is given that same object.
render_thumbnail_selector(previews, state, lists, click) ==
    LET selected_pages == SelectedList(state, lists)
        toggled == IF ListHas(selected_pages, click)
                   THEN ListRemove(selected_pages, click)
                   ELSE Append(selected_pages, click)
    IN  IF \E i \in 1..Len(previews) : previews[i].page_num = click
        THEN [state |-> update_selected_pages(state, SelectedRef(state)),
              heap |-> [lists EXCEPT ![SelectedRef(state)] = toggled],
              value |-> toggled]
        ELSE [state |-> state, heap |-> lists, value |-> selected_pages]

\* The two number inputs give start_page in 1..len(previews) and end_page in
\* start_page..len(previews); the range is a new list.
render_range_selector(previews, state, lists, start_page, end_page) ==
    [state |-> update_selected_pages(state, "other"),
     heap |-> [lists EXCEPT !.other = RangeList(start_page, end_page)],
     value |-> RangeList(start_page, end_page)]

\* max_pages or APP_CONFIG['max_pages_preview']: max_pages = 0 stands for
\* None as well.
MaxPagesOr(max_pages) == IF max_pages = 0 THEN max_pages_preview ELSE max_pages

\* One run of render_page_selector with the radio at selection_mode.  When
\* the previews cannot be made the method answers [1].
render_page_selector(pdf_file, state, lists, max_pages, selection_mode, click, start_page, end_page) ==
    LET previews == get_all_pages_preview(pdf_file, MaxPagesOr(max_pages))
        chosen ==
            IF selection_mode = "All Pages"
            THEN [state |-> update_selected_pages(state, "other"),
                  heap |-> [lists EXCEPT !.other = RangeList(1, Len(previews.data))]]
            ELSE IF selection_mode = "Specific Pages"
            THEN render_thumbnail_selector(previews.data, state, lists, click)
            ELSE render_range_selector(previews.data, state, lists,
                                       start_page, end_page)
    IN  IF previews.status # "ok"
        THEN [state |-> state, heap |-> lists, value |-> <<1>>]
        ELSE [state |-> chosen.state, heap |-> chosen.heap,
              value |-> SelectedList(chosen.state, chosen.heap)]

\* st.number_input(min_value, max_value, value) raises StreamlitAPIException
\* when value is below min_value or above max_value.
NumberInputRaises(min_value, max_value, value) ==
    value < min_value \/ value > max_value

\* _render_position_presets: the position a preset button stores before
\* st.rerun().
PresetPosition(page_info, preset) ==
    CASE preset = "Top Left" -> <<50, 50>>
      [] preset = "Center" -> <<page_info.width \div 2, page_info.height \div 2>>
      [] preset = "Top Right" -> <<page_info.width - 100, 50>>
      [] preset = "Bottom Right" ->
            <<page_info.width - 100, page_info.height - 50>>

PresetButtons == {"Top Left", "Center", "Top Right", "Bottom Right"}

\* One run of render_position_selector: new_x and new_y are what the two
\* number inputs give, preset is the preset button pressed in this run
\* ("none": no button).  Every exception but the one of st.rerun() is caught
\* and answered with (100, 100).
render_position_selector(pdf_file, state, page_num, new_x, new_y, preset) ==
    LET preview == get_pdf_preview(pdf_file, page_num)
        page_info == preview.data[2]
        updated == update_position(state, new_x, new_y)
    IN  IF preview.status # "ok"
        THEN [state |-> state, ret |-> Return(<<100, 100>>, <<>>)]
        ELSE IF \/ NumberInputRaises(0, page_info.width,
                                     get(state, "position_x", 100))
                \/ NumberInputRaises(0, page_info.height,
                                     get(state, "position_y", 100))
        THEN [state |-> state, ret |-> Return(<<100, 100>>, <<>>)]
        ELSE IF preset \in PresetButtons
        THEN [state |-> update_position(updated,
                                        PresetPosition(page_info, preset)[1],
                                        PresetPosition(page_info, preset)[2]),
              ret |-> Raise("RerunException", <<>>)]
        ELSE [state |-> updated,
              ret |-> Return(<<updated["position_x"], updated["position_y"]>>,
                             <<>>)]

---------------------------------------------------------------------------
(* Python strings as sequences of characters, for the file names, the page *)
(* texts and the conversion types.                                         *)

UpperChars ==
    <<"A", "B", "C", "D", "E", "F", "G", "H", "I", "J", "K", "L", "M",
      "N", "O", "P", "Q", "R", "S", "T", "U", "V", "W", "X", "Y", "Z">>

LowerChars ==
    <<"a", "b", "c", "d", "e", "f", "g", "h", "i", "j", "k", "l", "m",
      "n", "o", "p", "q", "r", "s", "t", "u", "v", "w", "x", "y", "z">>

\* s.lower(), for the letters A to Z; any other character of the model has
\* no lowercase form.
PyLower(s) ==
    [i \in 1..Len(s) |->
        IF \E k \in 1..26 : UpperChars[k] = s[i]
        THEN LowerChars[CHOOSE k \in 1..26 : UpperChars[k] = s[i]]
        ELSE s[i]]

\* s.replace(old, new) for single characters old and new
PyReplace(s, old, new) == [i \in 1..Len(s) |-> IF s[i] = old THEN new ELSE s[i]]

\* str(n) for n >= 0
RECURSIVE PyStrNat(_)
PyStrNat(n) ==
    IF n < 10 THEN <<DigitChars[n + 1]>>
    ELSE PyStrNat(n \div 10) \o <<DigitChars[(n % 10) + 1]>>

\* str(n) for an int n
PyStr(n) == IF n < 0 THEN <<"-">> \o PyStrNat(0 - n) ELSE PyStrNat(n)

\* The positions where a word of s begins: a character that is no
\* whitespace, at the start or behind whitespace.
WordStarts(s) ==
    {i \in 1..Len(s) : s[i] \notin Whitespace /\ (i = 1 \/ s[i - 1] \in Whitespace)}

\* The position where the word beginning at i ends.
WordEnd(s, i) ==
    CHOOSE j \in i..Len(s) :
        /\ \A k \in i..j : s[k] \notin Whitespace
        /\ j = Len(s) \/ s[j + 1] \in Whitespace

\* s.split(): the words between runs of whitespace, none when s has no
\* word.
PySplitWords(s) ==
    [k \in 1..Cardinality(WordStarts(s)) |->
        LET i == CHOOSE p \in WordStarts(s) :
                     Cardinality({q \in WordStarts(s) : q < p}) = k - 1
        IN  SubSeq(s, i, WordEnd(s, i))]

\* '\n'.join(lines)
RECURSIVE JoinLines(_)
JoinLines(lines) ==
    IF lines = <<>> THEN <<>>
    ELSE IF Len(lines) = 1 THEN lines[1]
    ELSE Head(lines) \o <<"\n">> \o JoinLines(Tail(lines))

\* The position of the last "." of name, 0 when it has none.
LastDot(name) ==
    IF \E i \in 1..Len(name) : name[i] = "."
    THEN CHOOSE i \in 1..Len(name) :
             name[i] = "." /\ \A j \in (i + 1)..Len(name) : name[j] # "."
    ELSE 0

\* Path(name).stem for a name without a directory: the name without its
\* last suffix; a dot at the start or at the end begins no suffix, and "."
\* is the path without a name.
Stem(name) ==
    IF name = <<".">> THEN <<>>
    ELSE IF 1 < LastDot(name) /\ LastDot(name) < Len(name)
    THEN SubSeq(name, 1, LastDot(name) - 1)
    ELSE name

\* name.rsplit('.', 1)[0]: what stands before the last dot.
RSplitDot(name) ==
    IF LastDot(name) = 0 THEN name ELSE SubSeq(name, 1, LastDot(name) - 1)

---------------------------------------------------------------------------
(* PDFEditor.add_page_numbers and PDFSecurity.add_digital_signature.       *)

\* Where the number is put on a page rect: (x, y) in half points, as
\* rect.width / 2 need not be a whole number.
PageNumberPoint(position, page) ==
    IF position = "bottom_left" THEN <<60, 2 * page.height - 60>>
    ELSE IF position = "top_right" THEN <<2 * page.width - 100, 60>>
    ELSE IF position = "top_left" THEN <<60, 60>>
    ELSE IF position = "bottom_center" THEN <<page.width, 2 * page.height - 60>>
    ELSE <<2 * page.width - 100, 2 * page.height - 60>>

\* for page_num in range(len(doc)): insert_text((x, y),
\* str(page_num + start_number), fontsize = font_size, color = (0, 0, 0),
\* fontname = "helv") on every page.
NumberedPages(pages, position, font_size, start_number) ==
    [i \in 1..Len(pages) |->
        [pages[i] EXCEPT
            !.marks = Append(@, [kind |-> "page_number",
                                 text |-> PyStr(i - 1 + start_number),
                                 point |-> PageNumberPoint(position, pages[i]),
                                 fontsize |-> font_size,
                                 color |-> <<0, 0, 0>>])]]

\* No exception is caught: load_page of the first page raises on a document
\* that still needs its password.
add_page_numbers(pdf_file, position, font_size, start_number) ==
    LET stream == Read(pdf_file)
    IN  IF ~CanOpen(stream) THEN Raise("EmptyFileError", <<>>)
        ELSE IF NeedsPass(stream)
        THEN Locked(stream, Len(stream.pages) = 0)
        ELSE Return(<<SaveKeep(stream,
                               NumberedPages(stream.pages, position, font_size,
                                             start_number))>>,
                    <<Len(stream.pages)>>)

\* The items of a signature on a page: the text f"{signature_text}\nSigned
\* on: {timestamp}" in blue and the box around it.
SignatureMarks(signature_text, position, timestamp) ==
    <<[kind |-> "signature", text |-> signature_text, timestamp |-> timestamp,
       point |-> position, fontsize |-> 10, color |-> <<0, 0, 1>>],
      [kind |-> "shape", shape_type |-> "rectangle",
       rect |-> <<position[1] - 5, position[2] - 15, position[1] + 200,
                  position[2] + 30>>]>>

\* "if page_num < len(doc)": load_page, then insert_text of the signature,
\* a text that is never empty, with fontname = "helv-bo"; then save.
\* timestamp is assigned inside the "if" only and read for the result, so
\* the call raises UnboundLocalError behind save when the "if" was not
\* entered.  Every exception is raised again as
\* ValueError("Failed to add digital signature: ...").  now is the clock.
add_digital_signature(pdf_file, signature_text, position, page_num, now) ==
    LET stream == Read(pdf_file)
    IN  IF ~CanOpen(stream) THEN Raise("EmptyFileError", <<>>)
        ELSE IF page_num < Len(stream.pages)
        THEN IF NeedsPass(stream) THEN Locked(stream, FALSE)
             ELSE IF "helv-bo" \notin Base14_fontdict THEN Raise("ValueError", <<>>)
             ELSE Return(<<SaveKeep(stream,
                                    [stream.pages EXCEPT
                                        ![LoadPage(Len(stream.pages), page_num)].marks =
                                            @ \o SignatureMarks(signature_text,
                                                                position, now)]),
                           [signer |-> signature_text, timestamp |-> now,
                            page |-> page_num + 1]>>,
                         <<Len(stream.pages)>>)
        ELSE IF NeedsPass(stream) THEN Locked(stream, TRUE)
        ELSE Raise("UnboundLocalError", <<Len(stream.pages)>>)

---------------------------------------------------------------------------
(* PDFConverter and OCRProcessor.ocr_image.  Besides PDF files the tools   *)
(* take office files and images, written as records with a field kind:     *)
(*   [kind |-> "docx", size, paragraphs, fits]    the texts of the         *)
(*                                                 paragraphs              *)
(*   [kind |-> "xlsx", size, rows, fits]          the rows of cells of the *)
(*                                                 first sheet             *)
(*   [kind |-> "pptx", size, slides]              per slide its shapes     *)
(*                                                 [has_text, text], fits  *)
(*   [kind |-> "image", size, width, height, mode]                         *)
(* fits tells whether MuPDF lays the text of the file out inside the text  *)
(* box of a page (that is a matter of the glyph widths of the font).  A    *)
(* page of a PDF file to convert carries its text in the field chars.  A   *)
(* handle has a name and the MIME type the browser gave.  A result is the  *)
(* dict [data, filename, mime_type]; a written office file or archive is   *)
(* data of its kind.                                                       *)

\* The file is a PDF file: fitz.open(stream = ..., filetype = "pdf") raises
\* FileDataError on bytes that are none.
IsPdf(stream) == "pages" \in DOMAIN stream

KindOf(stream) ==
    IF stream.size = 0 THEN "empty"
    ELSE IF IsPdf(stream) THEN "pdf"
    ELSE stream.kind

\* page.get_text()
GetText(page) == page.chars

\* fitz.open(stream = pdf_file.read(), filetype = "pdf") and the first
\* load_page of the loop over the pages: the exception raised, "" for none.
OpenForPages(stream) ==
    IF ~CanOpen(stream) THEN "EmptyFileError"
    ELSE IF ~IsPdf(stream) THEN "FileDataError"
    ELSE IF NeedsPass(stream) /\ Len(stream.pages) > 0
    THEN "document closed or encrypted"
    ELSE ""

\* add_paragraph(text) for every page, add_page_break() between two pages.
WordBody(pages) ==
    [k \in 1..(2 * Len(pages) - 1) |->
        IF k % 2 = 1
        THEN [kind |-> "paragraph", text |-> GetText(pages[(k + 1) \div 2])]
        ELSE [kind |-> "page_break"]]

\* No exception is caught.
pdf_to_word(pdf_file) ==
    LET stream == Read(pdf_file)
    IN  IF OpenForPages(stream) # "" THEN Raise(OpenForPages(stream), <<>>)
        ELSE Return(<<[data |-> [kind |-> "docx", body |-> WordBody(stream.pages)],
                       filename |-> Stem(pdf_file.name) \o <<".", "d", "o",
                             "c", "x">>,
                       mime_type |-> "application/vnd.openxmlformats-officedocument.wordprocessingml.document"]>>,
                    <<>>)

\* for line in lines: if line.strip(): all_data.append(line.split())
RECURSIVE RowsOfLines(_)
RowsOfLines(lines) ==
    IF lines = <<>> THEN <<>>
    ELSE (IF PyStrip(Head(lines)) # <<>> THEN <<PySplitWords(Head(lines))>> ELSE <<>>)
            \o RowsOfLines(Tail(lines))

\* The rows of all pages: lines = text.split('\n') of each page in turn.
RECURSIVE AllData(_)
AllData(pages) ==
    IF pages = <<>> THEN <<>>
    ELSE RowsOfLines(PySplit(GetText(Head(pages)), "\n")) \o AllData(Tail(pages))

\* row + [''] * (max_cols - len(row)) for every row
PaddedData(all_data) ==
    LET max_cols == CHOOSE n \in {Len(all_data[i]) : i \in 1..Len(all_data)} :
                        \A i \in 1..Len(all_data) : Len(all_data[i]) <= n
    IN  [i \in 1..Len(all_data) |->
            all_data[i] \o [k \in 1..(max_cols - Len(all_data[i])) |-> <<>>]]

\* df.to_excel(output, index = False, header = False): the sheet holds the
\* rows of the frame.  No exception is caught.
pdf_to_excel(pdf_file) ==
    LET stream == Read(pdf_file)
        all_data == AllData(stream.pages)
    IN  IF OpenForPages(stream) # "" THEN Raise(OpenForPages(stream), <<>>)
        ELSE Return(<<[data |-> [kind |-> "xlsx",
                                 rows |-> IF all_data # <<>> THEN PaddedData(all_data)
                                          ELSE <<<<<<"N", "o", " ", "d", "a",
                                                "t", "a", " ", "e", "x", "t",
                                                "r", "a", "c", "t", "e", "d">>>>>>],
                       filename |-> Stem(pdf_file.name) \o <<".", "x", "l",
                             "s", "x">>,
                       mime_type |-> "application/vnd.openxmlformats-officedocument.spreadsheetml.sheet"]>>,
                    <<>>)

\* content.text = text[:1000]
slide_text_limit == 1000

\* One slide per page: the title f"Page {page_num + 1}", the content
\* text[:1000].  No exception is caught.
pdf_to_powerpoint(pdf_file) ==
    LET stream == Read(pdf_file)
    IN  IF OpenForPages(stream) # "" THEN Raise(OpenForPages(stream), <<>>)
        ELSE Return(<<[data |-> [kind |-> "pptx",
                                 slides |-> [i \in 1..Len(stream.pages) |->
                                               [title |-> <<"P", "a", "g",
                                                     "e", " ">> \o PyStr(i),
                                                content |-> PySlice(GetText(stream.pages[i]),
                                                                    0, slide_text_limit)]]],
                       filename |-> Stem(pdf_file.name) \o <<".", "p", "p",
                             "t", "x">>,
                       mime_type |-> "application/vnd.openxmlformats-officedocument.presentationml.presentation"]>>,
                    <<>>)

\* One PNG per page, rendered at twice the size, in a ZIP archive under the
\* name f"page_{i+1}.png".  No exception is caught.
pdf_to_images(pdf_file) ==
    LET stream == Read(pdf_file)
    IN  IF OpenForPages(stream) # "" THEN Raise(OpenForPages(stream), <<>>)
        ELSE Return(<<[data |-> [kind |-> "zip",
                                 entries |-> [i \in 1..Len(stream.pages) |->
                                                [name |-> <<"p", "a", "g",
                                                      "e", "_">> \o PyStr(i) \o <<".", "p", "n", "g">>,
                                                 data |-> [kind |-> "png",
                                                           page |-> stream.pages[i].num,
                                                           zoom |-> 2]]]],
                       filename |-> Stem(pdf_file.name) \o <<"_", "i", "m",
                             "a", "g", "e", "s", ".", "z", "i", "p">>,
                       mime_type |-> "application/zip"]>>,
                    <<>>)

\* pdf_doc.new_page(): a page of the size A4.
NewPage(num, width, height, marks) ==
    [num |-> num, text |-> {}, marks |-> marks, width |-> width, height |-> height]

\* page.insert_textbox(fitz.Rect(50, 50, width - 50, height - 50), text,
\* fontsize = fontsize, fontname = "helv") on a new page: nothing is drawn
\* for an empty text, and nothing when the text does not fit into the box
\* (insert_textbox then answers a negative number, which nobody reads).
TextboxMarks(text, is_empty, fits, fontsize) ==
    IF is_empty \/ ~fits THEN <<>>
    ELSE <<[kind |-> "textbox", rect |-> <<50, 50, 595 - 50, 842 - 50>>,
            text |-> text, fontsize |-> fontsize]>>

\* pdf_doc.save(output) of a document made by fitz.open(): not encrypted,
\* one unit per page.
SaveNew(pages) ==
    [size |-> Len(pages), pages |-> pages, method |-> "NONE", user_pw |-> "",
     owner_pw |-> "", permissions |-> AllPermissions]

\* Document(word_file) reads the file from its start, wherever the cursor
\* is; it raises on a file that is no Word file.  The text of all
\* paragraphs goes into one text box on one page.  Every exception is
\* raised again as ValueError("Failed to convert Word to PDF: ...").
word_to_pdf(word_file) ==
    LET doc == GetValue(word_file)
        text_content == JoinLines(doc.paragraphs)
    IN  IF KindOf(doc) # "docx" THEN Raise("ValueError", <<>>)
        ELSE Return(<<[data |-> SaveNew(<<NewPage(1, 595, 842,
                                                  TextboxMarks(text_content,
                                                               text_content = <<>>,
                                                               doc.fits, 12))>>),
                       filename |-> Stem(word_file.name) \o <<".", "p", "d",
                             "f">>,
                       mime_type |-> "application/pdf"]>>,
                    <<1>>)

\* pd.read_excel(excel_file): the first row of the first sheet names the
\* columns, the rows below are the data.
ReadExcel(rows) ==
    IF rows = <<>> THEN [columns |-> <<>>, data |-> <<>>]
    ELSE [columns |-> Head(rows), data |-> Tail(rows)]

\* The text df.to_string(index = False) is never empty (a frame without
\* rows and columns reads "Empty DataFrame ..."); it is kept as the frame it
\* prints.  Every exception is raised again as
\* ValueError("Failed to convert Excel to PDF: ...").
excel_to_pdf(excel_file) ==
    LET book == GetValue(excel_file)
        df == ReadExcel(book.rows)
    IN  IF KindOf(book) # "xlsx" THEN Raise("ValueError", <<>>)
        ELSE Return(<<[data |-> SaveNew(<<NewPage(1, 595, 842,
                                                  TextboxMarks([to_string |-> df],
                                                               FALSE, book.fits,
                                                               10))>>),
                       filename |-> Stem(excel_file.name) \o <<".", "p", "d",
                             "f">>,
                       mime_type |-> "application/pdf"]>>,
                    <<1>>)

\* The texts of the shapes of a slide that have the attribute text.
RECURSIVE SlideText(_)
SlideText(shapes) ==
    IF shapes = <<>> THEN <<>>
    ELSE (IF Head(shapes).has_text THEN <<Head(shapes).text>> ELSE <<>>)
            \o SlideText(Tail(shapes))

\* f"Slide {slide_num + 1}\n{'='*20}\n" + '\n'.join(slide_text)
SlideFullText(slide_num, shapes) ==
    <<"S", "l", "i", "d", "e", " ">> \o PyStr(slide_num + 1) \o <<"\n">> \o [k \in 1..20 |-> "="]
        \o <<"\n">> \o JoinLines(SlideText(shapes))

\* One page per slide; save raises on a presentation without slides.  Every
\* exception is raised again as
\* ValueError("Failed to convert PowerPoint to PDF: ...").
powerpoint_to_pdf(ppt_file) ==
    LET ppt == GetValue(ppt_file)
        pages == [i \in 1..Len(ppt.slides) |->
                    NewPage(i, 595, 842,
                            TextboxMarks(SlideFullText(i - 1, ppt.slides[i].shapes),
                                         FALSE, ppt.slides[i].fits, 12))]
    IN  IF KindOf(ppt) # "pptx" THEN Raise("ValueError", <<>>)
        ELSE IF Len(pages) = 0 THEN Raise("ValueError", <<0>>)
        ELSE Return(<<[data |-> SaveNew(pages),
                       filename |-> Stem(ppt_file.name) \o <<".", "p", "d",
                             "f">>,
                       mime_type |-> "application/pdf"]>>,
                    <<Len(pages)>>)

\* The loop over image_files: Image.open reads a file from its start and
\* raises on one that is no image, which is printed and skipped; an image
\* becomes a page of its size that it fills.
RECURSIVE ImagePages(_, _)
ImagePages(image_files, pages) ==
    IF image_files = <<>> THEN pages
    ELSE LET img == GetValue(Head(image_files))
         IN  ImagePages(Tail(image_files),
                        IF KindOf(img) # "image" THEN pages
                        ELSE Append(pages,
                                    NewPage(Len(pages) + 1, img.width, img.height,
                                            <<[kind |-> "image",
                                               rect |-> <<0, 0, img.width,
                                                          img.height>>]>>)))

\* image_files is a list of handles; a single handle is taken as the list
\* of it ("if not isinstance(image_files, list)"), written <<handle>> by the
\* caller.  save is outside the try: it raises ValueError when no file was
\* an image.
images_to_pdf(image_files) ==
    LET pages == ImagePages(image_files, <<>>)
    IN  IF Len(pages) = 0 THEN Raise("ValueError", <<0>>)
        ELSE Return(<<[data |-> SaveNew(pages),
                       filename |-> <<"c", "o", "n", "v", "e", "r", "t", "e",
                             "d", "_", "i", "m", "a", "g", "e", "s", ".",
                             "p", "d", "f">>,
                       mime_type |-> "application/pdf"]>>,
                    <<Len(pages)>>)

\* The keys of self.supported_formats.
supported_formats ==
    [pdf_to_word |-> <<"p", "d", "f", "_", "t", "o", "_", "w", "o", "r", "d">>,
     pdf_to_excel |-> <<"p", "d", "f", "_", "t", "o", "_", "e", "x", "c",
           "e", "l">>,
     pdf_to_powerpoint |-> <<"p", "d", "f", "_", "t", "o", "_", "p", "o",
           "w", "e", "r", "p", "o", "i", "n", "t">>,
     pdf_to_images |-> <<"p", "d", "f", "_", "t", "o", "_", "i", "m", "a",
           "g", "e", "s">>,
     word_to_pdf |-> <<"w", "o", "r", "d", "_", "t", "o", "_", "p", "d", "f">>,
     excel_to_pdf |-> <<"e", "x", "c", "e", "l", "_", "t", "o", "_", "p",
           "d", "f">>,
     powerpoint_to_pdf |-> <<"p", "o", "w", "e", "r", "p", "o", "i", "n",
           "t", "_", "t", "o", "_", "p", "d", "f">>,
     images_to_pdf |-> <<"i", "m", "a", "g", "e", "s", "_", "t", "o", "_",
           "p", "d", "f">>]

\* The methods of PDFConverter that take one file.
ConverterMethods ==
    {"pdf_to_word", "pdf_to_excel", "pdf_to_powerpoint", "pdf_to_images",
     "word_to_pdf", "excel_to_pdf", "powerpoint_to_pdf"}

\* self.supported_formats[conversion_key](uploaded_file)
Convert(method, uploaded_file) ==
    CASE method = "pdf_to_word" -> pdf_to_word(uploaded_file)
      [] method = "pdf_to_excel" -> pdf_to_excel(uploaded_file)
      [] method = "pdf_to_powerpoint" -> pdf_to_powerpoint(uploaded_file)
      [] method = "pdf_to_images" -> pdf_to_images(uploaded_file)
      [] method = "word_to_pdf" -> word_to_pdf(uploaded_file)
      [] method = "excel_to_pdf" -> excel_to_pdf(uploaded_file)
      [] method = "powerpoint_to_pdf" -> powerpoint_to_pdf(uploaded_file)
      [] method = "images_to_pdf" -> images_to_pdf(<<uploaded_file>>)

\* conversion_key = conversion_type.lower().replace(' ', '_'); a key that is
\* none of supported_formats raises ValueError("Unsupported conversion
\* type: ...").
ConversionKey(conversion_type) == PyReplace(PyLower(conversion_type), " ", "_")

\* conversion_key in self.supported_formats
Supported(conversion_key) ==
    \E method \in DOMAIN supported_formats :
       supported_formats[method] = conversion_key

convert_file(uploaded_file, conversion_type) ==
    LET conversion_key == ConversionKey(conversion_type)
    IN  IF Supported(conversion_key)
        THEN Convert(CHOOSE method \in DOMAIN supported_formats :
                         supported_formats[method] = conversion_key,
                     uploaded_file)
        ELSE Raise("ValueError", <<>>)

\* A new document of one page of the size of the image, which fills it,
\* with the text in white at (0, 0): page.insert_text((0, 0), text,
\* fontsize = 1, color = (1, 1, 1)) uses the font "helv" and draws nothing
\* for an empty text.
create_pdf_from_image(image, text) ==
    SaveNew(<<NewPage(1, image.width, image.height,
                      <<[kind |-> "image",
                         rect |-> <<0, 0, image.width, image.height>>]>>
                          \o (IF text = "" THEN <<>>
                              ELSE <<[kind |-> "text", point |-> <<0, 0>>,
                                      text |-> text, fontsize |-> 1,
                                      color |-> <<1, 1, 1>>]>>))>>)

\* The number of channels np.array(image) has for the mode of the image.
Channels(mode) ==
    IF mode \in {"1", "L", "P", "I", "F"} THEN 1
    ELSE IF mode = "LA" THEN 2
    ELSE IF mode \in {"RGB", "YCbCr", "LAB", "HSV"} THEN 3
    ELSE 4

\* preprocess_image raises: with OpenCV, cv2.cvtColor(..., COLOR_RGB2BGR)
\* takes an array of three or four channels and raises cv2.error on any
\* other; without it the image is converted to grayscale by PIL.
PreprocessFails(image, cv2_available) ==
    cv2_available /\ Channels(image.mode) \notin {3, 4}

\* The modes of an image PIL writes as PNG; image.save(img_bytes,
\* format = 'PNG') raises OSError for any other.
PngModes == {"1", "L", "LA", "I", "P", "RGB", "RGBA"}

\* Image.open raises UnidentifiedImageError on a file that is no image.
\* oracle is what pytesseract recognises on the image, cv2_available
\* whether OpenCV could be imported.  No exception is caught.
ocr_image(image_file, oracle, cv2_available) ==
    LET image == GetValue(image_file)
    IN  IF KindOf(image) # "image" THEN Raise("UnidentifiedImageError", <<>>)
        ELSE IF PreprocessFails(image, cv2_available) THEN Raise("cv2.error", <<>>)
        ELSE IF image.mode \notin PngModes THEN Raise("OSError", <<>>)
        ELSE Return(<<[text |-> oracle,
                       pdf_data |-> create_pdf_from_image(image, oracle),
                       pdf_filename |-> <<"o", "c", "r", "_">> \o RSplitDot(image_file.name)
                                           \o <<".", "p", "d", "f">>,
                       text_data |-> [utf8 |-> oracle],
                       text_filename |-> RSplitDot(image_file.name)
                                            \o <<"_", "e", "x", "t", "r",
                                                  "a", "c", "t", "e", "d",
                                                  ".", "t", "x", "t">>]>>,
                    <<1>>)

\* if file.type == "application/pdf": ocr_pdf, else ocr_image.  oracle holds
\* what the OCR engine recognises: on each page of a PDF file and on an
\* image.
extract_text(file, oracle, cv2_available) ==
    IF file.type = "application/pdf" THEN ocr_pdf(file, oracle.pages)
    ELSE ocr_image(file, oracle.image, cv2_available)

---------------------------------------------------------------------------
(* The tools working on one uploaded file.                                 *)

\* The call of the one-page editing operation name with arguments args on
\* handle pdf_file.
InvokeSinglePage(name, args, pdf_file) ==
    CASE name = "add_text" -> add_text(pdf_file, args.text, args.page_num, args.color)
      [] name = "add_image" ->
            add_image(pdf_file, args.image_file, args.page_num, args.width,
                      args.height)
      [] name = "add_highlight" ->
            add_highlight(pdf_file, args.page_num, args.rect_coords, args.color)
      [] name = "add_underline" ->
            add_underline(pdf_file, args.page_num, args.rect_coords, args.color)
      [] name = "add_strikeout" ->
            add_strikeout(pdf_file, args.page_num, args.rect_coords, args.color)
      [] name = "add_squiggly" ->
            add_squiggly(pdf_file, args.page_num, args.rect_coords, args.color)
      [] name = "add_note" -> add_note(pdf_file, args.page_num)
      [] name = "add_text_annotation" ->
            add_text_annotation(pdf_file, args.page_num, args.rect_coords)
      [] name = "add_stamp" ->
            add_stamp(pdf_file, args.page_num, args.rect_coords, args.stamp_text,
                      args.color)
      [] name = "add_shape" ->
            add_shape(pdf_file, args.page_num, args.shape_type, args.coords,
                      args.color, args.fill_color)

\* The call of the editing operation name on the pages args.pages.
InvokeMultiPage(name, args, pdf_file) ==
    CASE name = "add_text_with_preview" ->
            add_text_with_preview(pdf_file, args.text, args.pages, args.color)
      [] name = "add_image_with_preview" ->
            add_image_with_preview(pdf_file, args.image_file, args.pages,
                                   args.width, args.height)

\* The call of operation name with arguments args on handle pdf_file.
Invoke(name, args, pdf_file) ==
    CASE name \in SinglePageOps -> InvokeSinglePage(name, args, pdf_file)
      [] name \in {"add_text_with_preview", "add_image_with_preview"} ->
            InvokeMultiPage(name, args, pdf_file)
      [] name \in ConverterMethods -> Convert(name, pdf_file)
      [] name = "add_password" ->
            add_password(pdf_file, args.user_password, args.owner_password,
                         args.encryption_method, args.permissions)
      [] name = "remove_password" -> remove_password(pdf_file, args.password)
      [] name = "check_pdf_security" -> check_pdf_security(pdf_file, args.password)
      [] name = "compress_pdf" ->
            compress_pdf(pdf_file, args.compression_level)
      [] name = "redact_content" ->
            redact_content(pdf_file, args.redaction_areas, args.page_num,
                           args.remove_overlapping)
      [] name = "generate_file_hash" -> generate_file_hash(pdf_file, args.algorithm)
      [] name = "get_pdf_preview" -> get_pdf_preview(pdf_file, args.page_num)
      [] name = "create_preview_with_overlay" ->
            create_preview_with_overlay(pdf_file, args.page_num, args.overlay_type,
                                        args.overlay_data)
      [] name = "add_watermark_with_preview" ->
            add_watermark_with_preview(pdf_file, args.watermark_text, args.pages,
                                       args.opacity, args.font_size, args.rotation)
      [] name = "add_watermark" ->
            add_watermark(pdf_file, args.watermark_text, args.opacity,
                          args.font_size, args.rotation)
      [] name = "ocr_pdf" -> ocr_pdf(pdf_file, args.oracle)
      [] name = "add_page_numbers" ->
            add_page_numbers(pdf_file, args.position, args.font_size,
                             args.start_number)
      [] name = "add_digital_signature" ->
            add_digital_signature(pdf_file, args.signature_text, args.position,
                                  args.page_num, args.now)
      [] name = "convert_file" -> convert_file(pdf_file, args.conversion_type)
      [] name = "images_to_pdf" -> images_to_pdf(args.image_files)
      [] name = "ocr_image" -> ocr_image(pdf_file, args.oracle, args.cv2_available)
      [] name = "extract_text" ->
            extract_text(pdf_file, args.oracle, args.cv2_available)

\* Page indices (0-indexed) a caller passes: valid, negative and too large.
PageNums == (0 - MaxFilePages)..MaxFilePages

\* The files a user has at hand: an empty file and unprotected PDF files.
UploadFiles == {EmptyBytes} \cup {PlainPdf(n) : n \in 1..MaxFilePages}

\* Arguments of add_password: an empty and a non-empty user password, an
\* absent and a given owner password, two known methods and an unknown one,
\* permission lists with known, unknown and no names.
UserPasswords == {"", "u"}

OwnerPasswords == {None, "o"}

MethodArgs == {"AES_256", "RC4_40", "DES"}

PermissionArgs ==
    {NoneList, <<>>, <<"print", "copy">>, <<"print", "fly">>, <<"fly">>}

\* Passwords typed into the tools: none, the two above and a wrong one.
Passwords == {"", "u", "o", "x"}

\* The compression levels of the selectbox, and one that is not a level.
LevelArgs == {"low", "medium", "high", "maximum", "best"}

\* Rectangles to redact: around the first text item, around both, over a
\* part of the first, and beside the text.
RedactRects == {<<0, 0, 2, 1>>, <<0, 0, 3, 1>>, <<0, 0, 1, 1>>, <<3, 0, 4, 1>>}

\* Hash algorithms of the selectbox, and one that is not in the table.
AlgorithmArgs == {"sha256", "md5", "crc32"}

\* Overlays of a preview: the two kinds the editing page asks for, and one
\* that draws nothing.
OverlayTypes == {"text", "watermark", "image"}

\* What an overlay is made of: a text or none, a color or a name that is
\* none, a rotation by a multiple of 90 or not.
OverlayData ==
    [text : {"", "x"},
     color : {<<"#", "0", "0", "0", "0", "0", "0">>, <<"r", "e", "d">>},
     rotation : {0, 45}]

\* The record of a call on the uploaded handle: pos is the cursor the call
\* found.
CallOf(name, args) == [name |-> name, pos |-> uploaded[1].pos, args |-> args]

\* st.file_uploader: a file is chosen; its handle starts at position 0.
UploadFile ==
    /\ call.name = "none"
    /\ \E content \in UploadFiles : uploaded' = <<[content |-> content, pos |-> 0]>>
    /\ UNCHANGED <<call, ret>>
    /\ UNCHANGED <<session_state, heap>>

\* The next script run: the uploader hands out a fresh handle of the same
\* file, and the result of the last click is gone.
FileRerun ==
    /\ call.name # "none"
    /\ uploaded' = <<[uploaded[1] EXCEPT !.pos = 0]>>
    /\ call' = NoCall
    /\ ret' = NoRet
    /\ UNCHANGED <<session_state, heap>>

\* Rectangles a caller passes: a proper one, one with x2 < x1 and one with
\* y2 = y1.
RectArgs == {<<0, 0, 2, 1>>, <<2, 0, 0, 1>>, <<0, 1, 2, 1>>}

\* Stamp texts: none and the default.
StampTexts == {"", "APPROVED"}

\* Shapes: rectangles, circles (x, y, radius) with a radius and without, a
\* circle given a rectangle, a line and a shape_type that is none of the
\* three.
ShapeArgs ==
    {[shape_type |-> "rectangle", coords |-> r] : r \in RectArgs}
        \cup {[shape_type |-> "circle", coords |-> <<1, 1, 1>>],
              [shape_type |-> "circle", coords |-> <<1, 1, 0>>],
              [shape_type |-> "circle", coords |-> <<0, 0, 2, 1>>],
              [shape_type |-> "line", coords |-> <<<<0, 0>>, <<1, 1>>>>],
              [shape_type |-> "triangle", coords |-> <<>>]}

\* Texts to draw: none and one.
Texts == {"", "x"}

\* Colors: the default "#000000", a name that is no hex color, and one whose
\* first component reads as -1.
Black == <<"#", "0", "0", "0", "0", "0", "0">>

Colors == {Black, <<"r", "e", "d">>, <<"#", "-", "1", "0", "0", "0", "0">>}

\* Fill colors: None, the default of the color picker and a name.
FillColors == {<<>>, <<"#", "F", "F", "F", "F", "F", "F">>, <<"r", "e", "d">>}

\* Image files: an image of 2 x 1 pixels and a file that is no image.
Images ==
    {[ok |-> TRUE, width |-> 2, height |-> 1],
     [ok |-> FALSE, width |-> 0, height |-> 0]}

\* width and height of an image on the page: both None, a width of 0, and
\* both given.
ImageSizes ==
    {[width |-> <<>>, height |-> <<>>], [width |-> <<0>>, height |-> <<>>],
     [width |-> <<3>>, height |-> <<2>>]}

\* The arguments of a single-page operation besides the file.
SinglePageArgs(name) ==
    IF name = "add_text"
    THEN {[text |-> t, page_num |-> p, color |-> c] :
            t \in Texts, p \in PageNums, c \in Colors}
    ELSE IF name = "add_image"
    THEN {[image_file |-> im, page_num |-> p, width |-> sz.width,
           height |-> sz.height] :
            im \in Images, p \in PageNums, sz \in ImageSizes}
    ELSE IF name \in {"add_highlight", "add_underline", "add_strikeout",
                      "add_squiggly"}
    THEN {[page_num |-> p, rect_coords |-> r, color |-> c] :
            p \in PageNums, r \in RectArgs, c \in Colors}
    ELSE IF name = "add_text_annotation"
    THEN {[page_num |-> p, rect_coords |-> r] : p \in PageNums, r \in RectArgs}
    ELSE IF name = "add_stamp"
    THEN {[page_num |-> p, rect_coords |-> r, stamp_text |-> t, color |-> c] :
            p \in PageNums, r \in RectArgs, t \in StampTexts, c \in Colors}
    ELSE IF name = "add_shape"
    THEN {[page_num |-> p, shape_type |-> sh.shape_type, coords |-> sh.coords,
           color |-> c, fill_color |-> f] :
            p \in PageNums, sh \in ShapeArgs, c \in Colors, f \in FillColors}
    ELSE {[page_num |-> p] : p \in PageNums}

\* A button click in a fresh script run: a single-page operation is called
\* on the handle; its read() leaves the cursor at the end.
CallSinglePageOp ==
    /\ Len(uploaded) = 1
    /\ call.name = "none"
    /\ \E name \in SinglePageOps :
          \E args \in SinglePageArgs(name) :
              /\ call' = CallOf(name, args)
              /\ ret' = InvokeSinglePage(name, args, uploaded[1])
    /\ uploaded' = <<AfterRead(uploaded[1])>>
    /\ UNCHANGED <<session_state, heap>>

\* A protected or unlocked download is uploaded as the next file.
UploadResult ==
    /\ call.name \in {"add_password", "remove_password"}
    /\ ret.status = "ok"
    /\ uploaded' = <<[content |-> ret.data[1], pos |-> 0]>>
    /\ call' = NoCall
    /\ ret' = NoRet
    /\ UNCHANGED <<session_state, heap>>

CallAddPassword ==
    /\ Len(uploaded) = 1
    /\ call.name = "none"
    /\ \E user_password \in UserPasswords, owner_password \in OwnerPasswords,
          encryption_method \in MethodArgs, permissions \in PermissionArgs :
          LET args == [user_password |-> user_password,
                       owner_password |-> owner_password,
                       encryption_method |-> encryption_method,
                       permissions |-> permissions]
          IN  /\ call' = CallOf("add_password", args)
              /\ ret' = add_password(uploaded[1], args.user_password,
                                     args.owner_password,
                                     args.encryption_method, args.permissions)
    /\ uploaded' = <<AfterRead(uploaded[1])>>
    /\ UNCHANGED <<session_state, heap>>

CallRemovePassword ==
    /\ Len(uploaded) = 1
    /\ call.name = "none"
    /\ \E password \in Passwords :
          /\ call' = CallOf("remove_password", [password |-> password])
          /\ ret' = remove_password(uploaded[1], password)
    /\ uploaded' = <<AfterRead(uploaded[1])>>
    /\ UNCHANGED <<session_state, heap>>

CallCheckSecurity ==
    /\ Len(uploaded) = 1
    /\ call.name = "none"
    /\ \E password \in Passwords \cup {None} :
          /\ call' = CallOf("check_pdf_security", [password |-> password])
          /\ ret' = check_pdf_security(uploaded[1], password)
    /\ uploaded' = <<AfterRead(uploaded[1])>>
    /\ UNCHANGED <<session_state, heap>>

\* _render_remove_password_tool with a password typed and the button clicked,
\* in a fresh script run: check_pdf_security(uploaded_pdf) reads the handle;
\* the tool returns if the report says "not encrypted"; otherwise (also when
\* the check raised: "except: pass") remove_password gets the same handle.
RemovePasswordTool ==
    /\ Len(uploaded) = 1
    /\ call.name = "none"
    /\ \E password \in Passwords \ {""} :
          LET security_info == check_pdf_security(uploaded[1], None)
              read_once == AfterRead(uploaded[1])
          IN  IF security_info.status = "ok" /\ ~security_info.data[1].is_encrypted
              THEN /\ call' = CallOf("check_pdf_security", [password |-> None])
                   /\ ret' = security_info
              ELSE /\ call' = [name |-> "remove_password", pos |-> read_once.pos,
                               args |-> [password |-> password]]
                   /\ ret' = remove_password(read_once, password)
    /\ uploaded' = <<AfterRead(uploaded[1])>>
    /\ UNCHANGED <<session_state, heap>>

\* compress_pdf on the uploaded handle, with a level of the selectbox or
\* another.
CallCompressPdf ==
    /\ Len(uploaded) = 1
    /\ call.name = "none"
    /\ \E compression_level \in LevelArgs :
          LET args == [compression_level |-> compression_level]
          IN  /\ call' = CallOf("compress_pdf", args)
              /\ ret' = compress_pdf(uploaded[1], args.compression_level)
    /\ uploaded' = <<AfterRead(uploaded[1])>>
    /\ UNCHANGED <<session_state, heap>>

CallRedactContent ==
    /\ Len(uploaded) = 1
    /\ call.name = "none"
    /\ \E redaction_areas \in SeqsUpTo(RedactRects, MaxAreas), page_num \in PageNums,
          remove_overlapping \in BOOLEAN :
          LET args == [redaction_areas |-> redaction_areas, page_num |-> page_num,
                       remove_overlapping |-> remove_overlapping]
          IN  /\ call' = CallOf("redact_content", args)
              /\ ret' = redact_content(uploaded[1], args.redaction_areas,
                                       args.page_num, args.remove_overlapping)
    /\ uploaded' = <<AfterRead(uploaded[1])>>
    /\ UNCHANGED <<session_state, heap>>

CallGenerateFileHash ==
    /\ Len(uploaded) = 1
    /\ call.name = "none"
    /\ \E algorithm \in AlgorithmArgs :
          /\ call' = CallOf("generate_file_hash", [algorithm |-> algorithm])
          /\ ret' = generate_file_hash(uploaded[1], algorithm)
    /\ uploaded' = <<AfterRead(uploaded[1])>>
    /\ UNCHANGED <<session_state, heap>>

\* generate_file_hash is called on a handle that a call of this run has read.
HashAgain ==
    /\ Len(uploaded) = 1
    /\ call.name \notin {"none"}
    /\ \E algorithm \in AlgorithmArgs :
          /\ call' = CallOf("generate_file_hash", [algorithm |-> algorithm])
          /\ ret' = generate_file_hash(uploaded[1], algorithm)
    /\ uploaded' = <<AfterRead(uploaded[1])>>
    /\ UNCHANGED <<session_state, heap>>

CallCreatePreview ==
    /\ Len(uploaded) = 1
    /\ call.name = "none"
    /\ \E page_num \in PageNums, overlay_type \in OverlayTypes,
          overlay_data \in OverlayData :
          LET args == [page_num |-> page_num, overlay_type |-> overlay_type,
                       overlay_data |-> overlay_data]
          IN  /\ call' = CallOf("create_preview_with_overlay", args)
              /\ ret' = create_preview_with_overlay(uploaded[1],
                                                    args.page_num,
                                                    args.overlay_type,
                                                    args.overlay_data)
    /\ uploaded' = <<AfterRead(uploaded[1])>>
    /\ UNCHANGED <<session_state, heap>>

\* render_before_after_preview in a fresh script run: get_pdf_preview reads
\* the handle, then create_preview_with_overlay gets the same handle; an
\* exception of the first call ends the component.
BeforeAfterPreview ==
    /\ Len(uploaded) = 1
    /\ call.name = "none"
    /\ \E page_num \in PageNums, overlay_type \in {"text", "watermark"},
          overlay_data \in OverlayData :
          LET original_preview == get_pdf_preview(uploaded[1], page_num)
              read_once == AfterRead(uploaded[1])
              args == [page_num |-> page_num, overlay_type |-> overlay_type,
                       overlay_data |-> overlay_data]
          IN  IF original_preview.status = "error"
              THEN /\ call' = CallOf("get_pdf_preview", [page_num |-> page_num])
                   /\ ret' = original_preview
              ELSE /\ call' = [name |-> "create_preview_with_overlay",
                               pos |-> read_once.pos, args |-> args]
                   /\ ret' = create_preview_with_overlay(read_once, page_num,
                                                         overlay_type, overlay_data)
    /\ uploaded' = <<AfterRead(uploaded[1])>>
    /\ UNCHANGED <<session_state, heap>>

\* _render_add_text_tool with "All Pages", a text typed and the button
\* clicked, in a fresh script run: render_page_selector reads the handle for
\* the thumbnails (and answers [1] when that fails); render_position_selector
\* and render_before_after_preview read it for their previews and report
\* their failures themselves; then add_text_with_preview gets the handle.
AddTextTool ==
    /\ Len(uploaded) = 1
    /\ call.name = "none"
    /\ LET selector == render_page_selector(uploaded[1], session_state, heap, 0,
                                            "All Pages", 0, 1, 1)
           selected_pages == selector.value
           preview_page == selected_pages[1] - 1
           after_selector == AfterRead(uploaded[1])
           position == render_position_selector(
                           after_selector, selector.state, preview_page,
                           get(selector.state, "position_x", 100),
                           get(selector.state, "position_y", 100), "none")
           after_position == AfterRead(after_selector)
           original_preview == get_pdf_preview(after_position, preview_page)
           after_previews == IF original_preview.status = "ok"
                             THEN AfterRead(AfterRead(after_position))
                             ELSE AfterRead(after_position)
           text_content == "x"
           text_color == Black
       IN  /\ call' = [name |-> "add_text_with_preview", pos |-> after_previews.pos,
                       args |-> [text |-> text_content, pages |-> selected_pages,
                                 color |-> text_color]]
           /\ ret' = add_text_with_preview(after_previews, text_content,
                                           selected_pages, text_color)
           /\ uploaded' = <<AfterRead(after_previews)>>
           /\ session_state' = position.state
           /\ heap' = selector.heap

\* Lists of 1-indexed page numbers a caller passes to the multi-page
\* editors: numbers of pages, 0, a negative number and one above the count.
MaxListLen == 2

PageLists == SeqsUpTo((0 - 1)..(MaxFilePages + 1), MaxListLen)

\* The arguments of a multi-page editor besides the file.
MultiPageArgs(name) ==
    IF name = "add_text_with_preview"
    THEN {[text |-> t, pages |-> ps, color |-> c] :
            t \in Texts, ps \in PageLists, c \in Colors}
    ELSE {[image_file |-> im, pages |-> ps, width |-> sz.width,
           height |-> sz.height] :
            im \in Images, ps \in PageLists, sz \in ImageSizes}

\* A multi-page editor is called with a list of page numbers.
CallMultiPageOp ==
    /\ Len(uploaded) = 1
    /\ call.name = "none"
    /\ \E name \in {"add_text_with_preview", "add_image_with_preview"} :
          \E args \in MultiPageArgs(name) :
              /\ call' = CallOf(name, args)
              /\ ret' = InvokeMultiPage(name, args, uploaded[1])
    /\ uploaded' = <<AfterRead(uploaded[1])>>
    /\ UNCHANGED <<session_state, heap>>

\* Arguments of the watermark operations: no text and a text; opacities in
\* percent (the slider goes from 0.1 to 1.0, the parameter takes any
\* number); two font sizes; the default rotation of 45 degrees and two
\* multiples of 90.
WatermarkTexts == {"", "W"}

Opacities == {0, 30, 100}

FontSizes == {20, 50}

WatermarkRotations == {0, 45, 90}

WatermarkPageLists == {<<>>, <<1>>, <<0>>, <<1, 2>>, <<MaxFilePages + 1>>}

WatermarkArgs ==
    [watermark_text : WatermarkTexts, opacity : Opacities,
     font_size : FontSizes, rotation : WatermarkRotations]

CallAddWatermark ==
    /\ Len(uploaded) = 1
    /\ call.name = "none"
    /\ \E args \in WatermarkArgs :
          /\ call' = CallOf("add_watermark", args)
          /\ ret' = add_watermark(uploaded[1], args.watermark_text,
                                  args.opacity, args.font_size, args.rotation)
    /\ uploaded' = <<AfterRead(uploaded[1])>>
    /\ UNCHANGED <<session_state, heap>>

CallAddWatermarkWithPreview ==
    /\ Len(uploaded) = 1
    /\ call.name = "none"
    /\ \E a \in WatermarkArgs, pages \in WatermarkPageLists :
          LET args == [watermark_text |-> a.watermark_text, pages |-> pages,
                       opacity |-> a.opacity, font_size |-> a.font_size,
                       rotation |-> a.rotation]
          IN  /\ call' = CallOf("add_watermark_with_preview", args)
              /\ ret' = add_watermark_with_preview(uploaded[1],
                                                   args.watermark_text,
                                                   args.pages, args.opacity,
                                                   args.font_size,
                                                   args.rotation)
    /\ uploaded' = <<AfterRead(uploaded[1])>>
    /\ UNCHANGED <<session_state, heap>>

\* What the OCR engine recognises on a page: nothing, or words.
OcrTexts == {"", "words"}

\* extract_text on a PDF file: ocr_pdf with the answers of the engine.
CallOcrPdf ==
    /\ Len(uploaded) = 1
    /\ call.name = "none"
    /\ \E oracle \in [1..Len(uploaded[1].content.pages) -> OcrTexts] :
          /\ call' = CallOf("ocr_pdf", [oracle |-> oracle])
          /\ ret' = ocr_pdf(uploaded[1], oracle)
    /\ uploaded' = <<AfterRead(uploaded[1])>>
    /\ UNCHANGED <<session_state, heap>>

\* Positions of a page number: three of the selectbox and one that is none.
NumberPositions == {"bottom_right", "bottom_center", "top_left", "middle"}

\* The number of the first page: the default, one that gives two digits on
\* a later page, and a negative one.
StartNumbers == {1, 9, -1}

\* add_page_numbers called on the uploaded handle.
CallAddPageNumbers ==
    /\ Len(uploaded) = 1
    /\ call.name = "none"
    /\ \E position \in NumberPositions, start_number \in StartNumbers :
          LET args == [position |-> position, font_size |-> 12,
                       start_number |-> start_number]
          IN  /\ call' = CallOf("add_page_numbers", args)
              /\ ret' = add_page_numbers(uploaded[1], args.position,
                                         args.font_size, args.start_number)
    /\ uploaded' = <<AfterRead(uploaded[1])>>
    /\ UNCHANGED <<session_state, heap>>

\* Names to sign with: none and one.  The clock shows some time.
SignatureTexts == {"", "S"}

\* add_digital_signature called on the uploaded handle, on existing pages
\* and on pages the file does not have.
CallAddDigitalSignature ==
    /\ Len(uploaded) = 1
    /\ call.name = "none"
    /\ \E signature_text \in SignatureTexts, page_num \in PageNums :
          LET args == [signature_text |-> signature_text,
                       position |-> <<100, 100>>, page_num |-> page_num,
                       now |-> "2024-01-01 00:00:00"]
          IN  /\ call' = CallOf("add_digital_signature", args)
              /\ ret' = add_digital_signature(uploaded[1],
                                              args.signature_text,
                                              args.position, args.page_num,
                                              args.now)
    /\ uploaded' = <<AfterRead(uploaded[1])>>
    /\ UNCHANGED <<session_state, heap>>

\* The colors st.color_picker("Highlight Color", "#FFFF00") gives.
HighlightColors == {<<"#", "F", "F", "F", "F", "0", "0">>, Black}

\* _render_highlight_tool with the button clicked, in a fresh script run:
\* the preview of the page reads the handle for its picture and reports its
\* failure itself; then add_highlight gets the handle.
HighlightTool ==
    /\ Len(uploaded) = 1
    /\ call.name = "none"
    /\ \E page_number \in 1..(MaxFilePages + 1), rect_coords \in RectArgs,
          highlight_color \in HighlightColors :
          LET after_preview == AfterRead(uploaded[1])
          IN  /\ call' = [name |-> "add_highlight", pos |-> after_preview.pos,
                          args |-> [page_num |-> page_number - 1,
                                    rect_coords |-> rect_coords,
                                    color |-> highlight_color]]
              /\ ret' = add_highlight(after_preview, page_number - 1,
                                      rect_coords, highlight_color)
              /\ uploaded' = <<AfterRead(after_preview)>>
    /\ UNCHANGED <<session_state, heap>>

\* What st.number_input("Width (0 = original)", min_value=0, value=0) gives.
ImageInputs == {0, 3}

\* _render_add_image_tool with an image chosen, "All Pages" and the button
\* clicked, in a fresh script run: render_page_selector reads the handle for
\* the thumbnails (and answers [1] when that fails); render_position_selector
\* reads it for its preview and reports the failure itself; then
\* add_image_with_preview gets the handle, with None for a size of 0.
AddImageTool ==
    /\ Len(uploaded) = 1
    /\ call.name = "none"
    /\ \E width \in ImageInputs, height \in ImageInputs :
          LET uploaded_image == [ok |-> TRUE, width |-> 2, height |-> 1]
              selector == render_page_selector(uploaded[1], session_state, heap,
                                               0, "All Pages", 0, 1, 1)
              selected_pages == selector.value
              preview_page == selected_pages[1] - 1
              after_selector == AfterRead(uploaded[1])
              position == render_position_selector(
                              after_selector, selector.state, preview_page,
                              get(selector.state, "position_x", 100),
                              get(selector.state, "position_y", 100), "none")
              after_position == AfterRead(after_selector)
              width_arg == IF width > 0 THEN <<width>> ELSE <<>>
              height_arg == IF height > 0 THEN <<height>> ELSE <<>>
          IN  /\ selected_pages # <<>>
              /\ call' = [name |-> "add_image_with_preview",
                          pos |-> after_position.pos,
                          args |-> [image_file |-> uploaded_image,
                                    pages |-> selected_pages,
                                    width |-> width_arg, height |-> height_arg]]
              /\ ret' = add_image_with_preview(after_position, uploaded_image,
                                               selected_pages, width_arg,
                                               height_arg)
              /\ uploaded' = <<AfterRead(after_position)>>
              /\ session_state' = position.state
              /\ heap' = selector.heap

\* _render_add_watermark_tool with "All Pages", a text typed and the button
\* clicked, in a fresh script run: render_page_selector reads the handle for
\* the thumbnails (and answers [1] when that fails);
\* render_before_after_preview reads it for its previews and reports its
\* failure itself; then add_watermark_with_preview gets the handle.
AddWatermarkTool ==
    /\ Len(uploaded) = 1
    /\ call.name = "none"
    /\ \E a \in WatermarkArgs :
          LET selector == render_page_selector(uploaded[1], session_state, heap,
                                               0, "All Pages", 0, 1, 1)
              selected_pages == selector.value
              preview_page == selected_pages[1] - 1
              after_selector == AfterRead(uploaded[1])
              original_preview == get_pdf_preview(after_selector, preview_page)
              after_previews == IF original_preview.status = "ok"
                                THEN AfterRead(AfterRead(after_selector))
                                ELSE AfterRead(after_selector)
          IN  /\ selected_pages # <<>>
              /\ a.watermark_text # ""
              /\ a.opacity > 0
              /\ call' = [name |-> "add_watermark_with_preview",
                          pos |-> after_previews.pos,
                          args |-> [watermark_text |-> a.watermark_text,
                                    pages |-> selected_pages,
                                    opacity |-> a.opacity,
                                    font_size |-> a.font_size,
                                    rotation |-> a.rotation]]
              /\ ret' = add_watermark_with_preview(after_previews,
                                                   a.watermark_text,
                                                   selected_pages, a.opacity,
                                                   a.font_size, a.rotation)
              /\ uploaded' = <<AfterRead(after_previews)>>
              /\ session_state' = selector.state
              /\ heap' = selector.heap

FileNext ==
    \/ UploadFile
    \/ FileRerun
    \/ UploadResult
    \/ CallSinglePageOp
    \/ CallAddPassword
    \/ CallRemovePassword
    \/ CallCheckSecurity
    \/ RemovePasswordTool
    \/ CallCompressPdf
    \/ CallRedactContent
    \/ CallGenerateFileHash
    \/ HashAgain
    \/ CallCreatePreview
    \/ BeforeAfterPreview
    \/ AddTextTool
    \/ CallMultiPageOp
    \/ CallAddWatermark
    \/ CallAddWatermarkWithPreview
    \/ CallOcrPdf
    \/ CallAddPageNumbers
    \/ CallAddDigitalSignature
    \/ HighlightTool
    \/ AddImageTool
    \/ AddWatermarkTool

FileSpec == Init /\ [][FileNext]_vars

---------------------------------------------------------------------------
(* The compression tool on files of several sizes.                         *)

\* The sizes, in the units of a saved page, of the files to compress: as
\* small as a saved page, larger, and sizes for which the ratio lies halfway
\* between two hundredths.
OriginalSizes == {1, 2, 3, 7, 32, 160}

\* A PDF file of n pages that takes size units.
PdfOfSize(n, size) == [PlainPdf(n) EXCEPT !.size = size]

\* The files a user has at hand for the compression tool: an empty file,
\* unprotected files and one that opens only with a password.
CompressFiles ==
    {EmptyBytes}
        \cup {PdfOfSize(n, size) : n \in 1..MaxSize, size \in OriginalSizes}
        \cup {SaveEncrypted(PlainPdf(1), "AES_256", "u", "o", AllPermissions)}

\* st.file_uploader of the security page: a file is chosen.
CompressUpload ==
    /\ call.name = "none"
    /\ \E content \in CompressFiles : uploaded' = <<[content |-> content, pos |-> 0]>>
    /\ UNCHANGED <<call, ret>>
    /\ UNCHANGED <<session_state, heap>>

CompressNext ==
    \/ CompressUpload
    \/ FileRerun
    \/ CallCompressPdf

CompressSpec == Init /\ [][CompressNext]_vars

---------------------------------------------------------------------------
(* The conversion tools and the OCR of images: ConvertSpec.                *)

\* The texts of pages: words on lines with an empty line, no word at all,
\* and a text longer than a slide takes.
WordsText == <<"a", " ", "b", "\n", "\n", " ", "c">>

BlankText == <<" ", "\n">>

LongText == [i \in 1..(slide_text_limit + 1) |-> "x"]

\* An unprotected PDF file whose pages carry the texts given.
TextPdf(texts) ==
    [size |-> Len(texts),
     pages |-> [i \in 1..Len(texts) |->
                  [num |-> i, text |-> PageText, marks |-> <<>>, width |-> 595,
                   height |-> 842, chars |-> texts[i]]],
     method |-> "NONE", user_pw |-> "", owner_pw |-> "",
     permissions |-> AllPermissions]

\* PDF files with text, without, with a long text, and a protected one.
PdfFiles ==
    {TextPdf(<<WordsText>>), TextPdf(<<WordsText, <<>>>>), TextPdf(<<BlankText>>),
     TextPdf(<<LongText>>),
     SaveEncrypted(TextPdf(<<WordsText>>), "AES_256", "u", "o", AllPermissions)}

\* Word files: without a paragraph, and with two whose text fits the page
\* or not.
WordFiles ==
    {[kind |-> "docx", size |-> 1, paragraphs |-> <<>>, fits |-> TRUE]}
        \cup {[kind |-> "docx", size |-> 1, paragraphs |-> <<<<"a">>, <<"b">>>>,
               fits |-> fits] : fits \in BOOLEAN}

\* Excel files: an empty sheet, and a sheet of two rows.
ExcelFiles ==
    {[kind |-> "xlsx", size |-> 1, rows |-> <<>>, fits |-> TRUE]}
        \cup {[kind |-> "xlsx", size |-> 1, rows |-> <<<<<<"h">>>>, <<<<"1">>>>>>,
               fits |-> fits] : fits \in BOOLEAN}

\* Presentations: without a slide, and with a slide of a text and a picture
\* and a slide without shapes whose text does not fit.
PowerPointFiles ==
    {[kind |-> "pptx", size |-> 1, slides |-> <<>>],
     [kind |-> "pptx", size |-> 1,
      slides |-> <<[shapes |-> <<[has_text |-> TRUE, text |-> <<"t">>],
                                 [has_text |-> FALSE, text |-> <<>>]>>,
                    fits |-> TRUE],
                   [shapes |-> <<>>, fits |-> FALSE]>>]}

\* Images of 2 x 1 pixels in color, in grayscale and in CMYK.
ImageFiles ==
    {[kind |-> "image", size |-> 1, width |-> 2, height |-> 1, mode |-> mode] :
        mode \in {"RGB", "L", "CMYK"}}

\* The files a user has at hand for the conversion and OCR tools.
ConvertFiles ==
    {EmptyBytes} \cup PdfFiles \cup WordFiles \cup ExcelFiles
        \cup PowerPointFiles \cup ImageFiles

\* File names: with a suffix, beginning with the dot, ending with it.
FileNames == {<<"a", ".", "b">>, <<".", "b">>, <<"a", ".">>}

\* The MIME types a browser gives a file of the kind.
MimeTypes(content) ==
    IF KindOf(content) = "pdf" THEN {"application/pdf"}
    ELSE IF KindOf(content) = "empty" THEN {"application/pdf", "image/png"}
    ELSE IF KindOf(content) = "image" THEN {"image/png"}
    ELSE {"application/octet-stream"}

\* The options of st.selectbox("Choose conversion type:"), a key of
\* supported_formats, a type with two spaces and one that is no conversion.
ConversionTypes ==
    {<<"P", "D", "F", " ", "t", "o", " ", "W", "o", "r", "d">>,
     <<"P", "D", "F", " ", "t", "o", " ", "E", "x", "c", "e", "l">>,
     <<"P", "D", "F", " ", "t", "o", " ", "P", "o", "w", "e", "r", "P", "o", "i", "n", "t">>,
     <<"P", "D", "F", " ", "t", "o", " ", "I", "m", "a", "g", "e", "s">>,
     <<"W", "o", "r", "d", " ", "t", "o", " ", "P", "D", "F">>,
     <<"E", "x", "c", "e", "l", " ", "t", "o", " ", "P", "D", "F">>,
     <<"P", "o", "w", "e", "r", "P", "o", "i", "n", "t", " ", "t", "o", " ", "P", "D", "F">>,
     <<"I", "m", "a", "g", "e", "s", " ", "t", "o", " ", "P", "D", "F">>,
     <<"p", "d", "f", "_", "t", "o", "_", "w", "o", "r", "d">>,
     <<"P", "D", "F", " ", " ", "t", "o", " ", "W", "o", "r", "d">>,
     <<"P", "D", "F", " ", "t", "o", " ", "T", "e", "x", "t">>}

\* st.file_uploader: a file is chosen; its handle starts at position 0.
ConvertUpload ==
    /\ call.name = "none"
    /\ \E content \in ConvertFiles, name \in FileNames :
          \E type \in MimeTypes(content) :
             uploaded' = <<[content |-> content, pos |-> 0, name |-> name,
                            type |-> type]>>
    /\ UNCHANGED <<call, ret>>
    /\ UNCHANGED <<session_state, heap>>

\* convert_file called on the uploaded handle: the converter reads it; a
\* type that is no conversion raises before the handle is touched.
CallConvertFile ==
    /\ Len(uploaded) = 1
    /\ call.name = "none"
    /\ \E conversion_type \in ConversionTypes :
          LET args == [conversion_type |-> conversion_type]
          IN  /\ call' = CallOf("convert_file", args)
              /\ ret' = convert_file(uploaded[1], args.conversion_type)
              /\ uploaded' = <<IF Supported(ConversionKey(conversion_type))
                                THEN AfterRead(uploaded[1])
                                ELSE uploaded[1]>>
    /\ UNCHANGED <<session_state, heap>>

\* A method of PDFConverter called on the uploaded handle.
CallConverterMethod ==
    /\ Len(uploaded) = 1
    /\ call.name = "none"
    /\ \E name \in ConverterMethods :
          /\ call' = CallOf(name, <<>>)
          /\ ret' = Convert(name, uploaded[1])
    /\ uploaded' = <<AfterRead(uploaded[1])>>
    /\ UNCHANGED <<session_state, heap>>

\* Handles of an image and of a file that is none.
ImageHandles ==
    {[content |-> [kind |-> "image", size |-> 1, width |-> 3, height |-> 2,
                   mode |-> "L"],
      pos |-> 0, name |-> <<"i", ".", "p", "n", "g">>, type |-> "image/png"],
     [content |-> EmptyBytes, pos |-> 0, name |-> <<"e", ".", "p", "n", "g">>, type |-> "image/png"]}

\* images_to_pdf called with a list of files.
CallImagesToPdf ==
    /\ Len(uploaded) = 1
    /\ call.name = "none"
    /\ \E image_files \in SeqsUpTo(ImageHandles, MaxImages) :
          LET args == [image_files |-> image_files]
          IN  /\ call' = CallOf("images_to_pdf", args)
              /\ ret' = images_to_pdf(args.image_files)
    /\ UNCHANGED uploaded
    /\ UNCHANGED <<session_state, heap>>

\* What the OCR engine recognises on the pages of the file or on the image.
Oracles(file) ==
    IF file.type = "application/pdf"
    THEN {[pages |-> pages, image |-> ""] :
            pages \in [1..Len(file.content.pages) -> OcrTexts]}
    ELSE {[pages |-> <<>>, image |-> image] : image \in OcrTexts}

\* extract_text called on the uploaded handle, with and without OpenCV.
CallExtractText ==
    /\ Len(uploaded) = 1
    /\ call.name = "none"
    /\ \E oracle \in Oracles(uploaded[1]), cv2_available \in BOOLEAN :
          LET args == [oracle |-> oracle, cv2_available |-> cv2_available]
          IN  /\ call' = CallOf("extract_text", args)
              /\ ret' = extract_text(uploaded[1], args.oracle,
                                     args.cv2_available)
    /\ uploaded' = <<AfterRead(uploaded[1])>>
    /\ UNCHANGED <<session_state, heap>>

\* ocr_image called on the uploaded handle, with and without OpenCV.
CallOcrImage ==
    /\ Len(uploaded) = 1
    /\ call.name = "none"
    /\ \E oracle \in OcrTexts, cv2_available \in BOOLEAN :
          LET args == [oracle |-> oracle, cv2_available |-> cv2_available]
          IN  /\ call' = CallOf("ocr_image", args)
              /\ ret' = ocr_image(uploaded[1], args.oracle, args.cv2_available)
    /\ uploaded' = <<AfterRead(uploaded[1])>>
    /\ UNCHANGED <<session_state, heap>>

ConvertNext ==
    \/ ConvertUpload
    \/ FileRerun
    \/ CallConvertFile
    \/ CallConverterMethod
    \/ CallImagesToPdf
    \/ CallExtractText
    \/ CallOcrImage

ConvertSpec == Init /\ [][ConvertNext]_vars

---------------------------------------------------------------------------
(* Properties of the tools working on one uploaded file.                   *)

\* The uploaded handle, the bytes of the file, and the bytes a call returned.
PdfFile == uploaded[1]

Content == uploaded[1].content

OutBytes == ret.data[1]

\* C11: a single-page operation called with page_num >= page count or < 0
\* fails (PageIndexOutOfRange): it neither returns a document nor changes
\* any page.
C11_PageIndexOutOfRangeFails ==
    (/\ Called(call.name)
     /\ call.name \in SinglePageOps
     /\ call.pos = 0
     /\ CanOpen(Content)
     /\ (call.args.page_num >= Len(Content.pages) \/ call.args.page_num < 0))
        => ret.status = "error"

\* The file is protected: it was saved with an encryption method.
Protected(stream) == stream.method # "NONE"

\* C12: on a file protected by add_password(D, pw, owner absent, ...),
\* remove_password with pw returns an unencrypted document with the pages of
\* D, and with any other password it fails with the incorrect-password error
\* and returns no data.
C12_PasswordRoundTrip ==
    (/\ Called("remove_password")
     /\ call.pos = 0
     /\ Protected(Content)
     /\ Content.owner_pw = Content.user_pw)
        => IF call.args.password = Content.user_pw
           THEN /\ ret.status = "ok"
                /\ ~Protected(OutBytes)
                /\ OutBytes.pages = Content.pages
           ELSE /\ ret.status = "error"
                /\ ret.err = "Incorrect password provided"
                /\ ret.data = <<>>

\* C13: remove_password returns a decrypted document of an encrypted file
\* only if the password matches the user or the owner password of that file;
\* a password matching neither makes it fail, also when the file opens
\* without a password.
C13_NoDecryptionWithoutAuthentication ==
    (/\ Called("remove_password")
     /\ Protected(Content)
     /\ Authenticate(Content, call.args.password) = 0)
        => ret.status = "error"

\* The permission names add_password was given, and its method.
GivenPermissions ==
    IF call.args.permissions = NoneList
    THEN <<"print", "copy", "annotate">>
    ELSE call.args.permissions

\* The OR of the flags of the known names of a list: the flags are distinct
\* bits, so it is the sum over the set of names.
RECURSIVE SumFlags(_)
SumFlags(names) ==
    IF names = {} THEN 0
    ELSE LET n == CHOOSE x \in names : TRUE
         IN  permission_flags[n] + SumFlags(names \ {n})

\* C14: add_password fails (InvalidParameter) when the permission list holds
\* an unknown name or the method is unknown, and otherwise the permissions
\* of the protected file are the OR of the flags of the listed names.
C14_UnknownNamesRejected ==
    (Called("add_password") /\ call.pos = 0 /\ CanOpen(Content) /\ ~NeedsPass(Content))
        => IF \/ \E i \in 1..Len(GivenPermissions) :
                    GivenPermissions[i] \notin DOMAIN permission_flags
              \/ call.args.encryption_method \notin DOMAIN encryption_methods
           THEN ret.status = "error"
           ELSE /\ ret.status = "ok"
                /\ OutBytes.permissions =
                      SumFlags({GivenPermissions[i] : i \in 1..Len(GivenPermissions)})

\* The report check_pdf_security returned.
Report == ret.data[1]

\* C15: check_pdf_security without a password never fails; an unencrypted
\* document is reported authenticated with permissions and metadata filled
\* in; a document that needs a password is reported unauthenticated with the
\* permissions and metadata entries absent from the report; no report with
\* is_authenticated false holds a permission or metadata value.
C15_ReportWithoutPassword ==
    /\ (/\ Called("check_pdf_security")
        /\ call.args.password = None
        /\ call.pos = 0
        /\ CanOpen(Content))
          => /\ ret.status = "ok"
             /\ ~Protected(Content)
                   => /\ Report.is_authenticated = 1
                      /\ DOMAIN Report.permissions # {}
                      /\ DOMAIN Report.metadata # {}
             /\ NeedsPass(Content)
                   => /\ Report.is_authenticated = 0
                      /\ "permissions" \notin DOMAIN Report
                      /\ "metadata" \notin DOMAIN Report
    /\ (Called("check_pdf_security") /\ ret.status = "ok" /\ Report.is_authenticated = 0)
          => /\ DOMAIN Report.permissions = {}
             /\ DOMAIN Report.metadata = {}

\* The compression_info compress_pdf returned.
CompressionInfo == ret.data[2]

\* C16: compress_pdf on a file of 0 bytes fails with InvalidParameter before
\* a document is saved and a ratio computed; no call fails dividing by an
\* original size of 0; a successful call reports a compressed size >= 0 and
\* the ratio (1 - compressed/original) * 100 rounded to the nearest
\* hundredth, negative when the output is larger than the input.
C16_CompressEmptyIsInvalidParameter ==
    Called("compress_pdf")
        => /\ Content.size = 0
                 => /\ ret.status = "error"
                    /\ ret.err = "InvalidParameter"
                    /\ ret.saves = <<>>
           /\ ret.err # "ZeroDivisionError"
           /\ ret.status = "ok"
                 => LET o == CompressionInfo.original_size
                        c == CompressionInfo.compressed_size
                        r == CompressionInfo.compression_ratio
                    IN  /\ c >= 0
                        /\ o = Content.size
                        /\ 2 * (r * o - 10000 * (o - c)) <= o
                        /\ 2 * (10000 * (o - c) - r * o) <= o
                        /\ c > o => r < 0

\* The page redact_content was asked to redact, when it exists (1-indexed).
RedactedPage == call.args.page_num + 1

\* A text item of the redacted page that lay fully inside a listed area.
InsideSomeArea(box) ==
    \E i \in 1..Len(call.args.redaction_areas) :
        Inside(box, call.args.redaction_areas[i])

\* C17: after redact_content on an existing page, no text item that lay
\* fully inside one of the areas is left on that page of the output, for
\* every listed area, and the text of every other page is unchanged.
C17_RedactionRemovesText ==
    (/\ Called("redact_content")
     /\ ret.status = "ok"
     /\ RedactedPage \in 1..Len(Content.pages))
        => /\ Len(OutBytes.pages) = Len(Content.pages)
           /\ \A box \in Content.pages[RedactedPage].text :
                 InsideSomeArea(box) => box \notin OutBytes.pages[RedactedPage].text
           /\ \A q \in 1..Len(Content.pages) :
                 q # RedactedPage => OutBytes.pages[q].text = Content.pages[q].text

\* Two areas were redacted on the second page of a two-page document: the
\* second area holds a text item that the first does not, another item of
\* the page lies in no area and is still there.
C17_Witness ==
    /\ Called("redact_content")
    /\ ret.status = "ok"
    /\ Len(Content.pages) = 2
    /\ RedactedPage = 2
    /\ Len(call.args.redaction_areas) = 2
    /\ \E box \in Content.pages[2].text :
          /\ ~Inside(box, call.args.redaction_areas[1])
          /\ Inside(box, call.args.redaction_areas[2])
          /\ box \notin OutBytes.pages[2].text
    /\ \E box \in Content.pages[2].text :
          /\ ~InsideSomeArea(box)
          /\ box \in OutBytes.pages[2].text

\* The algorithm generate_file_hash uses for the one it was given.
UsedAlgorithm ==
    IF call.args.algorithm \in hash_algorithms THEN call.args.algorithm ELSE "sha256"

\* C18: every call of generate_file_hash on a file, whatever was called on
\* the handle before, returns the digest and the size of the complete file.
C18_HashOfCompleteFile ==
    Called("generate_file_hash")
        => /\ ret.status = "ok"
           /\ ret.data[1].hash = HexDigest(UsedAlgorithm, Content)
           /\ ret.data[1].file_size = Content.size

\* C19: create_preview_with_overlay does not change the document it
\* previews: when the call ends the opened document has the pages, page
\* contents and annotation lists of the file, for every overlay, the overlay
\* is drawn on the preview copy only, and nothing is saved.
C19_PreviewLeavesDocument ==
    (Called("create_preview_with_overlay") /\ ret.status = "ok")
        => /\ ret.data[2] = Content.pages
           /\ ret.saves = <<>>
           /\ LET page == Content.pages[LoadPage(Len(Content.pages), call.args.page_num)]
              IN  /\ ret.data[1].text = page.text
                  /\ ret.data[1].marks =
                        page.marks \o OverlayMarks(call.args.overlay_type,
                                                   call.args.overlay_data)

\* A text overlay was previewed: the image shows it, the document does not.
C19_Witness ==
    /\ Called("create_preview_with_overlay")
    /\ ret.status = "ok"
    /\ call.args.overlay_type = "text"
    /\ call.args.overlay_data.text # ""
    /\ Len(ret.data[1].marks) = 1
    /\ \A i \in 1..Len(ret.data[2]) : ret.data[2][i].marks = <<>>

\* C20: every operation called on the uploaded handle works on the complete
\* bytes of the file, whatever was called on the handle before in the same
\* run: its result is the one it gives on a handle at position 0.
C20_EveryCallLoadsCompleteFile ==
    (Called(call.name) /\ call.name # "none")
        => ret = Invoke(call.name, call.args, [content |-> Content, pos |-> 0])

\* The pages (1-indexed) a watermark call is to draw on: every page for
\* add_watermark, the listed pages the document has for
\* add_watermark_with_preview.
WatermarkedPages ==
    IF call.name = "add_watermark" THEN 1..Len(Content.pages)
    ELSE {call.args.pages[i] : i \in 1..Len(call.args.pages)}
            \cap (1..Len(Content.pages))

\* C21: add_watermark and add_watermark_with_preview, called with a text on
\* a document that opens, return an output that does not depend on opacity:
\* with every other opacity and the same file, text, pages, font size and
\* rotation the call returns the same document, on which the text is drawn
\* in the same gray on every page to be watermarked.
C21_WatermarkDrawnWhateverOpacity ==
    (/\ Called(call.name)
     /\ call.name \in {"add_watermark", "add_watermark_with_preview"}
     /\ call.pos = 0
     /\ CanOpen(Content)
     /\ ~NeedsPass(Content)
     /\ call.args.watermark_text # "")
        => /\ \A opacity \in Opacities :
                 ret = Invoke(call.name, [call.args EXCEPT !.opacity = opacity],
                              [content |-> Content, pos |-> call.pos])
           /\ ret.status = "ok"
           /\ \A i \in WatermarkedPages :
                 \E k \in 1..Len(OutBytes.pages[i].marks) :
                    OutBytes.pages[i].marks[k]
                        = WatermarkMark(call.args.watermark_text,
                                        call.args.font_size, call.args.rotation)

\* C22: the searchable PDF ocr_pdf returns carries, on every page, the text
\* the OCR engine recognised on that page as a text layer, so it is more
\* than a saved copy of the input when any text was recognised.
C22_SearchablePdfCarriesText ==
    (Called("ocr_pdf") /\ ret.status = "ok")
        => \A i \in 1..Len(OutBytes.pages) :
              call.args.oracle[i] # ""
                  => \E k \in 1..Len(OutBytes.pages[i].marks) :
                        OutBytes.pages[i].marks[k] =
                            [kind |-> "text_layer", text |-> call.args.oracle[i]]

\* The operations taking a rectangle, and the rectangle of the last call.
RectOps ==
    {"add_highlight", "add_underline", "add_strikeout", "add_squiggly",
     "add_text_annotation", "add_stamp"}

CalledWithRect ==
    /\ Called(call.name)
    /\ \/ call.name \in RectOps
       \/ call.name = "add_shape" /\ call.args.shape_type = "rectangle"

GivenRect ==
    IF call.name = "add_shape" THEN call.args.coords ELSE call.args.rect_coords

\* C23: an operation given a rectangle with x2 <= x1 or y2 <= y1 fails
\* (InvalidParameter), and every item with a rectangle on a page of a
\* returned document has x2 > x1 and y2 > y1.
C23_DegenerateRectRejected ==
    CalledWithRect
        => /\ (GivenRect[3] <= GivenRect[1] \/ GivenRect[4] <= GivenRect[2])
                => ret.status = "error"
           /\ ret.status = "ok"
                => \A i \in 1..Len(OutBytes.pages) :
                      \A k \in 1..Len(OutBytes.pages[i].marks) :
                          LET mark == OutBytes.pages[i].marks[k]
                          IN  "rect" \in DOMAIN mark
                                => /\ mark.rect[3] > mark.rect[1]
                                   /\ mark.rect[4] > mark.rect[2]

\* The multi-page editors, and whether page number i is in the list given.
MultiPageOps ==
    {"add_text_with_preview", "add_image_with_preview",
     "add_watermark_with_preview"}

Listed(i) == \E j \in 1..Len(call.args.pages) : call.args.pages[j] = i

\* C24: a multi-page editor that returns a document has changed page i of
\* it if and only if i is in the list pages: every page that is not in the
\* list is as it was uploaded, and every page in the list has got its item
\* (for a watermark: when there is a text to draw).
C24_ExactlyListedPagesChange ==
    (/\ Called(call.name)
     /\ call.name \in MultiPageOps
     /\ ret.status = "ok")
        => \A i \in 1..Len(Content.pages) :
              /\ ~Listed(i) => OutBytes.pages[i] = Content.pages[i]
              /\ (/\ Listed(i)
                  /\ call.name = "add_watermark_with_preview"
                        => call.args.watermark_text # "")
                    => OutBytes.pages[i] # Content.pages[i]

\* The redaction_info a successful redact_content returned.
RedactionInfo == ret.data[2]

\* C29: when redact_content returns with areas_redacted = k and page = p,
\* page p of the returned document has got exactly k redaction rectangles;
\* when there is no page p in the document, k is 0.
C29_RedactionInfoIsTrue ==
    (Called("redact_content") /\ ret.status = "ok")
        => IF RedactionInfo.page \in 1..Len(OutBytes.pages)
           THEN Len(OutBytes.pages[RedactionInfo.page].marks)
                    = Len(Content.pages[RedactionInfo.page].marks)
                        + RedactionInfo.areas_redacted
           ELSE RedactionInfo.areas_redacted = 0

\* The encryption_info a successful add_password returned.
EncryptionInfo == ret.data[2]

\* C30: the encryption_info of add_password names the method the returned
\* file is encrypted with, and its permissions list holds exactly the names
\* whose flags are set in the permissions of the returned file.
C30_EncryptionInfoIsTrue ==
    (Called("add_password") /\ ret.status = "ok")
        => /\ EncryptionInfo.method = OutBytes.method
           /\ {EncryptionInfo.permissions[i] :
                    i \in 1..Len(EncryptionInfo.permissions)}
                = {name \in DOMAIN permission_flags :
                        HasBit(OutBytes.permissions, permission_flags[name])}

---------------------------------------------------------------------------
(* SessionManager used by a caller: SessionSpec.                           *)

\* The record of a call that is not made on an uploaded handle.
SessionCall(name, args) == [name |-> name, pos |-> 0, args |-> args]

\* Arguments of set: a key with a value that is not its default.  A list
\* given for selected_pages is a new list object.
SetArgs ==
    {<<"current_page", 2>>, <<"preview_zoom", 20>>,
     <<"last_operation", "add_text">>, <<"selected_pages", <<2>>>>}

\* Positions given to update_position.
PositionArgs == {<<50, 50>>, <<0, 300>>}

\* Lists given to update_selected_pages.
SelectedPagesArgs == {<<>>, <<1>>}

\* The thumbnails of a document of MaxFilePages pages.
Thumbnails ==
    get_all_pages_preview([content |-> PlainPdf(MaxFilePages), pos |-> 0],
                          max_pages_preview).data

CallInitializeSession ==
    /\ call' = SessionCall("initialize_session", <<>>)
    /\ ret' = Return(<<>>, <<>>)
    /\ session_state' = initialize_session(session_state)
    /\ UNCHANGED <<uploaded, heap>>

CallSet ==
    /\ \E arg \in SetArgs :
          /\ call' = SessionCall("set", [key |-> arg[1], value |-> arg[2]])
          /\ IF arg[1] = "selected_pages"
             THEN /\ session_state' = set(session_state, arg[1], "other")
                  /\ heap' = [heap EXCEPT !.other = arg[2]]
             ELSE /\ session_state' = set(session_state, arg[1], arg[2])
                  /\ UNCHANGED heap
    /\ ret' = Return(<<>>, <<>>)
    /\ UNCHANGED uploaded

CallUpdatePosition ==
    /\ \E arg \in PositionArgs :
          /\ call' = SessionCall("update_position", [x |-> arg[1], y |-> arg[2]])
          /\ session_state' = update_position(session_state, arg[1], arg[2])
    /\ ret' = Return(<<>>, <<>>)
    /\ UNCHANGED <<uploaded, heap>>

CallUpdateSelectedPages ==
    /\ \E pages \in SelectedPagesArgs :
          /\ call' = SessionCall("update_selected_pages", [pages |-> pages])
          /\ session_state' = update_selected_pages(session_state, "other")
          /\ heap' = [heap EXCEPT !.other = pages]
    /\ ret' = Return(<<>>, <<>>)
    /\ UNCHANGED uploaded

\* _render_thumbnail_selector with the button of one page pressed.
ThumbnailToggle ==
    /\ \E click \in 1..Len(Thumbnails) :
          LET selector == render_thumbnail_selector(Thumbnails, session_state,
                                                    heap, click)
          IN  /\ call' = SessionCall("render_thumbnail_selector", [click |-> click])
              /\ ret' = Return(<<selector.value>>, <<>>)
              /\ session_state' = selector.state
              /\ heap' = selector.heap
    /\ UNCHANGED uploaded

\* SessionManager(): every script run constructs one, with a new empty list
\* as default_values['selected_pages'].  The list of the SessionManager
\* before lives on only where the session refers to it.
ConstructSessionManager ==
    /\ call' = SessionCall("SessionManager", <<>>)
    /\ ret' = Return(<<>>, <<>>)
    /\ IF get(session_state, "selected_pages", "other") = "defaults"
       THEN /\ session_state' = SetItem(session_state, "selected_pages", "stale")
            /\ heap' = [heap EXCEPT !.stale = heap.defaults, !.defaults = <<>>]
       ELSE /\ heap' = [heap EXCEPT !.defaults = <<>>]
            /\ UNCHANGED session_state
    /\ UNCHANGED uploaded

\* reset_session of the SessionManager constructed last.
CallResetSession ==
    /\ call' = SessionCall("reset_session", <<>>)
    /\ ret' = Return(<<>>, <<>>)
    /\ session_state' = reset_session(session_state)
    /\ UNCHANGED <<uploaded, heap>>

SessionNext ==
    \/ ConstructSessionManager
    \/ CallInitializeSession
    \/ CallSet
    \/ CallUpdatePosition
    \/ CallUpdateSelectedPages
    \/ ThumbnailToggle
    \/ CallResetSession

SessionSpec == Init /\ [][SessionNext]_vars

\* C25: after reset_session the session holds the defaults, whatever was
\* called before: selected_pages = [], position_x = position_y = 100,
\* current_page = 1, preview_zoom = 1.5 and last_operation = None.
C25_ResetRestoresDefaults ==
    call.name = "reset_session"
        => /\ heap[session_state["selected_pages"]] = <<>>
           /\ session_state["position_x"] = 100
           /\ session_state["position_y"] = 100
           /\ session_state["current_page"] = 1
           /\ session_state["preview_zoom"] = 15
           /\ session_state["last_operation"] = None

---------------------------------------------------------------------------
(* The page selector in the script runs of a tool: SelectorSpec.           *)

\* The files a user uploads to a tool with a page selector: an empty file
\* and documents of 1 .. MaxFilePages pages and of one page more than the
\* selector makes thumbnails for.
SelectorFiles ==
    UploadFiles \cup {PlainPdf(max_pages_preview + 1)}

SelectionModes == {"All Pages", "Specific Pages", "Page Range"}

\* The numbers a user enters as start or end of a range of n thumbnails.
RangeNumbers(n) == {k \in 1..n : k <= MaxFilePages \/ k = n}

\* st.file_uploader: a file is chosen or replaces the one chosen before; the
\* session stays.
SelectorUpload ==
    /\ \E content \in SelectorFiles : uploaded' = <<[content |-> content, pos |-> 0]>>
    /\ call' = NoCall
    /\ ret' = NoRet
    /\ UNCHANGED <<session_state, heap>>

\* The next script run starts: the uploader hands out a fresh handle.
SelectorRerun ==
    /\ Len(uploaded) = 1
    /\ call.name # "none"
    /\ uploaded' = <<[uploaded[1] EXCEPT !.pos = 0]>>
    /\ call' = NoCall
    /\ ret' = NoRet
    /\ UNCHANGED <<session_state, heap>>

\* render_page_selector in a script run, as the tools of the editing page
\* call it (without max_pages): the radio is at selection_mode; in "Specific
\* Pages" at most one thumbnail button was pressed, in "Page Range" the two
\* number inputs hold start_page <= end_page.
RenderPageSelector ==
    /\ Len(uploaded) = 1
    /\ \E selection_mode \in SelectionModes, click \in 0..MaxFilePages :
          LET n == Min(Len(Read(uploaded[1]).pages), max_pages_preview)
          IN  \E start_page \in RangeNumbers(n) \cup {1} :
                \E end_page \in RangeNumbers(n) \cup {1} :
                  /\ start_page <= end_page
                  /\ selection_mode # "Specific Pages" => click = 0
                  /\ selection_mode # "Page Range" => start_page = 1 /\ end_page = 1
                  /\ LET selector ==
                            render_page_selector(uploaded[1], session_state, heap, 0,
                                                 selection_mode, click,
                                                 start_page, end_page)
                     IN  /\ call' = CallOf("render_page_selector",
                                           [selection_mode |-> selection_mode,
                                            click |-> click,
                                            start_page |-> start_page,
                                            end_page |-> end_page])
                         /\ ret' = Return(<<selector.value>>, <<>>)
                         /\ session_state' = selector.state
                         /\ heap' = selector.heap
    /\ uploaded' = <<AfterRead(uploaded[1])>>

SelectorNext ==
    \/ SelectorUpload
    \/ SelectorRerun
    \/ RenderPageSelector

SelectorSpec == Init /\ [][SelectorNext]_vars

\* The selection render_page_selector returned for the uploaded document.
Selection == ret.data[1]

SelectorAnswered ==
    /\ Called("render_page_selector")
    /\ call.pos = 0
    /\ CanOpen(Content)

\* C26: the selection render_page_selector returns has no page number twice
\* and only numbers of pages of the document uploaded now.
C26_SelectionWithinDocument ==
    SelectorAnswered
        => /\ \A i \in 1..Len(Selection) : Selection[i] \in 1..Len(Content.pages)
           /\ \A i \in 1..Len(Selection) :
                 \A j \in 1..Len(Selection) : Selection[i] = Selection[j] => i = j

\* C27: in "All Pages" mode the selection is [1, ..., n] for a document of n
\* pages.
C27_AllPagesSelectsEveryPage ==
    (SelectorAnswered /\ call.args.selection_mode = "All Pages")
        => Selection = RangeList(1, Len(Content.pages))

---------------------------------------------------------------------------
(* The position selector in the script runs of a tool: PositionSpec.       *)

\* The files uploaded to a tool with a position selector: an empty file, a
\* page narrower than 100 points and a document of wider pages.
PositionFiles == {EmptyBytes, SizedPdf(1, 60, 80), SizedPdf(MaxFilePages, 200, 300)}

\* Numbers typed into a number input.
ManualEntries == {0, 40, 150}

\* What a number input with the bounds 0 and max_value gives when its
\* default is value: the default, or a number typed within the bounds (it
\* gives nothing when it raises).
NumberInputs(max_value, value) ==
    IF NumberInputRaises(0, max_value, value) THEN {value}
    ELSE {value} \cup {entry \in ManualEntries : entry <= max_value}

PositionUpload ==
    /\ \E content \in PositionFiles : uploaded' = <<[content |-> content, pos |-> 0]>>
    /\ call' = NoCall
    /\ ret' = NoRet
    /\ UNCHANGED <<session_state, heap>>

\* render_position_selector called on the handle as the uploader gave it or
\* as an earlier call left it, for the preview page page_num: numbers are
\* typed or left, and at most one preset button was pressed.
RenderPositionSelector ==
    /\ Len(uploaded) = 1
    /\ \E page_num \in 0..(MaxFilePages - 1), preset \in PresetButtons \cup {"none"} :
          LET preview == get_pdf_preview(uploaded[1], page_num)
              value_x == get(session_state, "position_x", 100)
              value_y == get(session_state, "position_y", 100)
          IN  \E new_x \in IF preview.status = "ok"
                           THEN NumberInputs(preview.data[2].width, value_x)
                           ELSE {value_x} :
                \E new_y \in IF preview.status = "ok"
                             THEN NumberInputs(preview.data[2].height, value_y)
                             ELSE {value_y} :
                  LET selector == render_position_selector(
                                      uploaded[1], session_state, page_num,
                                      new_x, new_y, preset)
                  IN  /\ call' = CallOf("render_position_selector",
                                        [page_num |-> page_num, new_x |-> new_x,
                                         new_y |-> new_y, preset |-> preset])
                      /\ ret' = selector.ret
                      /\ session_state' = selector.state
    /\ uploaded' = <<AfterRead(uploaded[1])>>
    /\ UNCHANGED heap

\* _render_add_text_tool in a fresh script run with "All Pages" and a text
\* typed, up to its position selector: render_page_selector has read the
\* handle for the thumbnails (and answers [1] when that fails), the preview
\* page is one of the selected pages, and render_position_selector gets the
\* handle read to its end, so that its preview fails and no number input or
\* preset button is shown.
AddTextPosition ==
    /\ Len(uploaded) = 1
    /\ call.name = "none"
    /\ LET selector == render_page_selector(uploaded[1], session_state, heap, 0,
                                            "All Pages", 0, 1, 1)
           selected_pages == selector.value
           after_selector == AfterRead(uploaded[1])
       IN  /\ selected_pages # <<>>
           /\ \E k \in 1..Len(selected_pages) :
                 LET preview_page == selected_pages[k] - 1
                     value_x == get(selector.state, "position_x", 100)
                     value_y == get(selector.state, "position_y", 100)
                     position == render_position_selector(
                                     after_selector, selector.state, preview_page,
                                     value_x, value_y, "none")
                 IN  /\ call' = [name |-> "render_position_selector",
                                 pos |-> after_selector.pos,
                                 args |-> [page_num |-> preview_page,
                                           new_x |-> value_x, new_y |-> value_y,
                                           preset |-> "none"]]
                     /\ ret' = position.ret
                     /\ session_state' = position.state
           /\ uploaded' = <<AfterRead(after_selector)>>
           /\ heap' = selector.heap

PositionNext ==
    \/ PositionUpload
    \/ SelectorRerun
    \/ RenderPositionSelector
    \/ AddTextPosition

PositionSpec == Init /\ [][PositionNext]_vars

\* C28: the position render_position_selector returns lies on the page it
\* previews: 0 <= x <= width and 0 <= y <= height of that page.
C28_PositionOnThePage ==
    (/\ Called("render_position_selector")
     /\ call.pos = 0
     /\ ret.status = "ok"
     /\ CanOpen(Content)
     /\ call.args.page_num < Len(Content.pages))
        => LET page == Content.pages[call.args.page_num + 1]
           IN  /\ 0 <= ret.data[1] /\ ret.data[1] <= page.width
               /\ 0 <= ret.data[2] /\ ret.data[2] <= page.height

====
